---- MODULE Spec2Model ----
(***************************************************************************)
(* AccessAtlas: the training loops (models/baseline/train.py Trainer and   *)
(* scripts/train_pipeline.py AdvancedTrainer) and the data preprocessor    *)
(* (data/preprocess.py DataPreprocessor), as state machines.               *)
(***************************************************************************)
EXTENDS Integers, Sequences, FiniteSets, TLC

(***************************************************************************)
(* Bounds of the model.                                                    *)
(***************************************************************************)
\* largest configured training.num_epochs
MaxEpochs == 3
\* largest configured training.early_stopping_patience
MaxPatience == 2
\* largest number of batches of the train loader
MaxBatches == 2
\* largest configured training.grad_accumulation_steps
MaxAccum == 2
\* validation accuracies are drawn from 0..MaxAcc
MaxAcc == 2
\* number of batches of a validation loader that is not empty
ValBatches == 1

\* Python's None (scheduler_state_dict of a trainer without a scheduler)
NoneVal == -1

VARIABLES
    \* ---- trainer ----
    config,                     \* self.config (+ the loaders' lengths)
    pc,                         \* position inside train()
    epoch,                      \* loop variable of `for epoch in range(...)`
    batch_idx,                  \* loop variable of the batch loops
    current_epoch,              \* self.current_epoch
    best_val_acc,               \* self.best_val_acc
    epochs_without_improvement, \* self.epochs_without_improvement
    val_acc,                    \* val_acc / val_metrics['accuracy'] of this epoch
    is_best,                    \* local is_best of AdvancedTrainer.train
    val_history,                \* accuracies of self.val_history / self.training_history
    model_state,                \* model.state_dict(): number of weight updates applied
    optimizer_state,            \* optimizer.state_dict(): number of optimizer steps
    scheduler_state,            \* scheduler.state_dict(): number of scheduler steps
    grad_pending,               \* backward passes accumulated in .grad since zero_grad
    ops,                        \* per batch of this epoch: the operations it performed
    files,                      \* checkpoint_dir: file name -> saved checkpoint
    log_saved,                  \* the training log / history JSON has been written
    raised,                     \* epoch number in which a batch raised, 0 if none
    \* ---- data preprocessor ----
    pre_pc,                     \* position of the preprocessing run
    pre_args,                   \* entry point, split ratios and seed
    csv,                        \* the input CSV: its columns and rows
    csv_read,                   \* pd.read_csv has read the input
    out_files,                  \* output_dir: the files written
    splits,                     \* the train/val/test DataFrames (row ids)
    metadata,                   \* self.metadata as saved by save_metadata
    first_run,                  \* splits and metadata of the previous run
    \* ---- TagDataset ----
    ds_pc,                      \* position: the dataset is constructed or not
    ds_args,                    \* the CSV and the configured type lists
    ds_df,                      \* self.df after filtering
    ds_idx,                     \* the index last passed to __getitem__
    ds_item,                    \* what __getitem__ last returned or raised
    \* ---- ModelExporter ----
    exp_pc,                     \* position inside export_all
    exp_env,                    \* installed libraries, outcome of each conversion
    exp_files,                  \* output_dir: the files written
    exp_log,                    \* the steps run and the warnings printed
    \* ---- tags API ----
    db_tags,                    \* the rows of the accessibility_tags table
    next_id,                    \* the id the table gives to its next row
    api_request,                \* the request last received
    api_response,               \* the response to it
    \* ---- detection endpoints ----
    has_full_stack,             \* _HAS_FULL_STACK
    yolo_model,                 \* model: the name of the loaded model, or "none"
    detect_reading,             \* a /detect is suspended at await file.read()
    ml_request,                 \* the request last answered
    ml_response,                \* the response to it
    \* ---- voice endpoint ----
    tts_engine,                 \* _TTS_ENGINE ("none": no engine, _HAS_TTS false)
    voice_request,              \* the text of the GET /voice last received
    voice_response,             \* the response to it
    audio_files,                \* the speech_*.mp3 files of the audio directory
    file_mtime,                 \* st_mtime of each of them
    other_files,                \* the other files of the audio directory
    clock,                      \* time.time()
    cleanup_response,           \* the response of the DELETE /voice/cleanup
    \* ---- AccessAtlasModel (model_v2.py, model.py) ----
    net_config,                 \* the constructor arguments of the model
    net_training,               \* nn.Module.training
    net_input,                  \* the shapes and the mode of the last forward call
    net_output,                 \* what the call returned or raised
    \* ---- a second trainer, freshly constructed ----
    fresh,                      \* its state and the checkpoint it loaded
    \* ---- fetch_osm_features (scripts/fetch_osm_tags.py) ----
    osm_pc,                     \* position: in the retry loop, returned
    retry_count,                \* the argument retry_count
    attempt,                    \* the loop variable attempt
    osm_trace,                  \* what each request met and every sleep, in order
    osm_result,                 \* the list returned
    \* ---- a trainer constructed with resume_path ----
    resume_accs,                \* the accuracies of the epochs before the checkpoint
    \* ---- Evaluator ----
    ev_pc,                      \* position: constructed, evaluated, analyzed, raised
    ev_config,                  \* config['evaluation']
    ev_predictions,             \* the predictions list evaluate() returned
    ev_report                   \* what analyze_errors wrote

trainerVars == <<config, pc, epoch, batch_idx, current_epoch, best_val_acc,
                 epochs_without_improvement, val_acc, is_best, val_history,
                 model_state, optimizer_state, scheduler_state, grad_pending,
                 ops, files, log_saved, raised>>

preVars == <<pre_pc, pre_args, csv, csv_read, out_files, splits, metadata,
             first_run>>

dsVars == <<ds_pc, ds_args, ds_df, ds_idx, ds_item>>

expVars == <<exp_pc, exp_env, exp_files, exp_log>>

apiVars == <<db_tags, next_id, api_request, api_response>>

mlVars == <<has_full_stack, yolo_model, detect_reading, ml_request,
           ml_response>>

voiceVars == <<tts_engine, voice_request, voice_response, audio_files,
               file_mtime, other_files, clock, cleanup_response>>

netVars == <<net_config, net_training, net_input, net_output>>

restoreVars == <<fresh>>

osmVars == <<osm_pc, retry_count, attempt, osm_trace, osm_result>>

resumedVars == <<resume_accs>>

evVars == <<ev_pc, ev_config, ev_predictions, ev_report>>

vars == <<trainerVars, preVars, dsVars, expVars, apiVars, mlVars, voiceVars, netVars, osmVars, resumedVars,
          restoreVars, evVars>>

(***************************************************************************)
(* Configurations.                                                         *)
(***************************************************************************)
\* the loaders' lengths are part of the configuration: a loader over an
\* empty split, or over fewer samples than one batch with drop_last, holds
\* no batch
TrainerConfigs ==
    [trainer : {"Trainer"},
     num_epochs : 1..MaxEpochs,
     early_stopping_patience : 1..MaxPatience,
     save_last : BOOLEAN,
     save_best_only : BOOLEAN,
     grad_accumulation_steps : {1},
     grad_clip : BOOLEAN,
     use_amp : {FALSE},
     scheduler : BOOLEAN,
     train_batches : 0..MaxBatches,
     val_batches : {0, ValBatches}]

AdvancedTrainerConfigs ==
    [trainer : {"AdvancedTrainer"},
     num_epochs : 1..MaxEpochs,
     early_stopping_patience : 1..MaxPatience,
     save_last : {TRUE},
     save_best_only : {TRUE},
     grad_accumulation_steps : 1..MaxAccum,
     grad_clip : BOOLEAN,
     use_amp : BOOLEAN,
     scheduler : BOOLEAN,
     train_batches : 0..MaxBatches,
     val_batches : {0, ValBatches}]

IsAdvanced == config.trainer = "AdvancedTrainer"

\* 1-based number of the epoch the loop variable stands for
\* (Trainer counts from 0 and prints epoch+1, AdvancedTrainer counts from 1)
EpochNo == IF IsAdvanced THEN epoch ELSE epoch + 1

\* last value of the loop variable
LastEpoch == IF IsAdvanced THEN config.num_epochs ELSE config.num_epochs - 1

(***************************************************************************)
(* Helpers of the training loop.                                           *)
(***************************************************************************)
\* mutant: a tie counts as an improvement
IsBestOrEqual(acc, best) == acc >= best
\* val_acc > self.best_val_acc
IsBest(acc, best) == acc > best

\* mutant: stop one epoch late
ShouldStopLate(without, patience) == without > patience
\* self.epochs_without_improvement >= early_stopping_patience
ShouldStop(without, patience) == without >= patience

\* mutant: off by one, tests the 0-based index
AccumulationBoundary0(idx, steps) == idx % steps = 0
\* (batch_idx + 1) % grad_accum_steps == 0
AccumulationBoundary(idx, steps) == (idx + 1) % steps = 0

\* the checkpoint dict built by save_checkpoint
Checkpoint(ep) ==
    [epoch |-> ep,
     model_state_dict |-> model_state,
     optimizer_state_dict |-> optimizer_state,
     scheduler_state_dict |-> IF config.scheduler THEN scheduler_state ELSE NoneVal,
     best_val_acc |-> best_val_acc,
     config |-> config]

\* torch.save(checkpoint, path): creates or overwrites the file
TorchSave(fs, name, ckpt) ==
    [n \in (DOMAIN fs) \cup {name} |-> IF n = name THEN ckpt ELSE fs[n]]

CheckpointFile(n) == <<"checkpoint_epoch", n>>
BestEpochFile(n) == <<"best_model_epoch", n>>
BestFile == <<"best_model", 0>>

\* the operations of one iteration of Trainer.train_epoch
TrainerBatchOps ==
    <<"zero_grad", "forward", "backward">>
    \o (IF config.grad_clip THEN <<"clip">> ELSE <<>>)
    \o <<"step">>

\* the operations of one iteration of AdvancedTrainer.train_epoch; under AMP
\* "step" is scaler.step(self.optimizer), followed by scaler.update()
AdvancedBatchOps(idx) ==
    <<"forward", "backward">>
    \o (IF AccumulationBoundary(idx, config.grad_accumulation_steps)
        THEN (IF config.grad_clip
              THEN (IF config.use_amp THEN <<"unscale", "clip">> ELSE <<"clip">>)
              ELSE <<>>)
             \o <<"step">>
             \o (IF config.use_amp THEN <<"scaler_update">> ELSE <<>>)
             \o <<"zero_grad">>
        ELSE <<>>)

\* number of entries `op` among the operations s
RECURSIVE CountOp(_, _)
CountOp(s, op) ==
    IF s = <<>> THEN 0
    ELSE (IF Head(s) = op THEN 1 ELSE 0) + CountOp(Tail(s), op)

(***************************************************************************)
(* Init: the trainer as constructed, train() about to run.                 *)
(***************************************************************************)
TrainerInit ==
    /\ config \in TrainerConfigs \cup AdvancedTrainerConfigs
    /\ pc = "for"
    /\ epoch = IF config.trainer = "AdvancedTrainer" THEN 0 ELSE -1
    /\ batch_idx = 0
    /\ current_epoch = 0
    /\ best_val_acc = 0
    /\ epochs_without_improvement = 0
    /\ val_acc = 0
    /\ is_best = FALSE
    /\ val_history = <<>>
    /\ model_state = 0
    /\ optimizer_state = 0
    /\ scheduler_state = 0
    /\ grad_pending = 0
    /\ ops = <<>>
    /\ files = <<>>
    /\ log_saved = FALSE
    /\ raised = 0

(***************************************************************************)
(* Actions of train().                                                     *)
(***************************************************************************)
\* for epoch in range(...): next iteration, or the loop is exhausted
ForEpoch ==
    /\ pc = "for"
    /\ IF epoch + 1 <= LastEpoch
       THEN /\ epoch' = epoch + 1
            /\ current_epoch' = IF IsAdvanced THEN current_epoch ELSE epoch + 1
            /\ pc' = "train_epoch"
            /\ batch_idx' = 0
            /\ ops' = <<>>
       ELSE /\ pc' = "save_log"
            /\ UNCHANGED <<epoch, current_epoch, batch_idx, ops>>
    /\ UNCHANGED <<config, best_val_acc, epochs_without_improvement, val_acc,
                   is_best, val_history, model_state, optimizer_state,
                   scheduler_state, grad_pending, files, log_saved, raised>>

\* one iteration of the batch loop of train_epoch
TrainBatch ==
    /\ pc = "train_epoch"
    /\ batch_idx < config.train_batches
    /\ LET bops == IF IsAdvanced THEN AdvancedBatchOps(batch_idx)
                   ELSE TrainerBatchOps
           steps == CountOp(bops, "step")
       IN /\ ops' = Append(ops, bops)
          /\ model_state' = model_state + steps
          /\ optimizer_state' = optimizer_state + steps
          /\ grad_pending' =
                IF IsAdvanced
                THEN (IF CountOp(bops, "zero_grad") > 0 THEN 0
                      ELSE grad_pending + 1)
                ELSE 1
    /\ batch_idx' = batch_idx + 1
    /\ UNCHANGED <<config, pc, epoch, current_epoch, best_val_acc,
                   epochs_without_improvement, val_acc, is_best, val_history,
                   scheduler_state, files, log_saved, raised>>

\* mutant: the exception of a batch is swallowed and the loop goes on
BatchRaisesCaught ==
    /\ pc \in {"train_epoch", "validate"}
    /\ batch_idx < (IF pc = "train_epoch" THEN config.train_batches
                    ELSE config.val_batches)
    /\ raised' = EpochNo
    /\ batch_idx' = batch_idx + 1
    /\ UNCHANGED <<config, pc, epoch, current_epoch, best_val_acc,
                   epochs_without_improvement, val_acc, is_best, val_history,
                   model_state, optimizer_state, scheduler_state, grad_pending,
                   ops, files, log_saved>>
\* the gradients held in .grad after the operations s, g of them before
RECURSIVE GradAfter(_, _)
GradAfter(g, s) ==
    IF s = <<>> THEN g
    ELSE GradAfter(IF Head(s) = "zero_grad" THEN 0
                   ELSE IF Head(s) = "backward" THEN g + 1
                   ELSE g,
                   Tail(s))

\* a batch of the training or the validation pass raises: nothing catches
\* it.  The loader raises before the
\* batch begins, or the batch raises after `done` of its operations: these
\* have taken effect, the operation that raises and the later ones have not
\* (with all of them done it is the statistics after them that raise).  A
\* batch of validate() changes nothing.
BatchRaises ==
    /\ pc \in {"train_epoch", "validate"}
    /\ batch_idx < (IF pc = "train_epoch" THEN config.train_batches
                    ELSE config.val_batches)
    /\ raised' = EpochNo
    /\ pc' = "aborted"
    /\ IF pc = "train_epoch"
       THEN LET bops == IF IsAdvanced THEN AdvancedBatchOps(batch_idx)
                        ELSE TrainerBatchOps
            IN \/ UNCHANGED <<model_state, optimizer_state, grad_pending, ops>>
               \/ \E k \in 0..Len(bops) :
                    LET done == SubSeq(bops, 1, k)
                    IN /\ ops' = Append(ops, done)
                       /\ model_state' = model_state + CountOp(done, "step")
                       /\ optimizer_state' =
                             optimizer_state + CountOp(done, "step")
                       /\ grad_pending' = GradAfter(grad_pending, done)
       ELSE UNCHANGED <<model_state, optimizer_state, grad_pending, ops>>
    /\ UNCHANGED <<config, epoch, batch_idx, current_epoch, best_val_acc,
                   epochs_without_improvement, val_acc, is_best, val_history,
                   scheduler_state, files, log_saved>>

\* mutant: the return sits inside the batch loop, after the first batch
TrainEpochReturnEarly ==
    /\ pc = "train_epoch"
    /\ batch_idx >= 1
    /\ pc' = "validate"
    /\ batch_idx' = 0
    /\ UNCHANGED <<config, epoch, current_epoch, best_val_acc,
                   epochs_without_improvement, val_acc, is_best, val_history,
                   model_state, optimizer_state, scheduler_state, grad_pending,
                   ops, files, log_saved, raised>>
\* train_epoch returns its metrics and validate() starts; over a loader
\* without a batch the averages total_loss / len(train_loader) (Trainer) and
\* total_loss / total (AdvancedTrainer) raise ZeroDivisionError, which
\* nothing catches
TrainEpochReturn ==
    /\ pc = "train_epoch"
    /\ batch_idx = config.train_batches
    /\ pc' = IF config.train_batches = 0 THEN "aborted" ELSE "validate"
    /\ batch_idx' = 0
    /\ UNCHANGED <<config, epoch, current_epoch, best_val_acc,
                   epochs_without_improvement, val_acc, is_best, val_history,
                   model_state, optimizer_state, scheduler_state, grad_pending,
                   ops, files, log_saved, raised>>

\* the batch loop of validate(), under no_grad
ValidateBatch ==
    /\ pc = "validate"
    /\ batch_idx < config.val_batches
    /\ batch_idx' = batch_idx + 1
    /\ UNCHANGED <<config, pc, epoch, current_epoch, best_val_acc,
                   epochs_without_improvement, val_acc, is_best, val_history,
                   model_state, optimizer_state, scheduler_state, grad_pending,
                   ops, files, log_saved, raised>>

\* validate() returns the accuracy; Trainer appends it to val_history.  Over
\* a loader without a batch the averages of validate() raise
\* ZeroDivisionError, which nothing catches
ValidateReturn ==
    /\ pc = "validate"
    /\ batch_idx = config.val_batches
    /\ IF config.val_batches = 0
       THEN /\ pc' = "aborted"
            /\ UNCHANGED <<val_acc, val_history>>
       ELSE /\ \E acc \in 0..MaxAcc :
                  /\ val_acc' = acc
                  /\ val_history' = IF IsAdvanced THEN val_history
                                    ELSE Append(val_history, acc)
            /\ pc' = "scheduler"
    /\ UNCHANGED <<config, epoch, batch_idx, current_epoch, best_val_acc,
                   epochs_without_improvement, is_best, model_state,
                   optimizer_state, scheduler_state, grad_pending, ops, files,
                   log_saved, raised>>

\* if self.scheduler: self.scheduler.step()
SchedulerStep ==
    /\ pc = "scheduler"
    /\ scheduler_state' = IF config.scheduler THEN scheduler_state + 1
                          ELSE scheduler_state
    /\ pc' = IF IsAdvanced THEN "check_best" ELSE "save_last"
    /\ UNCHANGED <<config, epoch, batch_idx, current_epoch, best_val_acc,
                   epochs_without_improvement, val_acc, is_best, val_history,
                   model_state, optimizer_state, grad_pending, ops, files,
                   log_saved, raised>>

\* Trainer: if config.logging.save_last: save_checkpoint(checkpoint_epoch_{epoch+1})
SaveLast ==
    /\ pc = "save_last"
    /\ files' = IF config.save_last
                THEN TorchSave(files, CheckpointFile(epoch + 1), Checkpoint(current_epoch))
                ELSE files
    /\ pc' = "check_best"
    /\ UNCHANGED <<config, epoch, batch_idx, current_epoch, best_val_acc,
                   epochs_without_improvement, val_acc, is_best, val_history,
                   model_state, optimizer_state, scheduler_state, grad_pending,
                   ops, log_saved, raised>>

\* the best-model check of both train() loops; Trainer saves the best
\* checkpoint here, after updating best_val_acc
CheckBest ==
    /\ pc = "check_best"
    /\ LET best == IsBest(val_acc, best_val_acc)
           newbest == IF best THEN val_acc ELSE best_val_acc
       IN /\ is_best' = IF IsAdvanced THEN best ELSE is_best
          /\ best_val_acc' = newbest
          /\ epochs_without_improvement' =
                IF best THEN 0 ELSE epochs_without_improvement + 1
          /\ files' =
                IF ~IsAdvanced /\ best /\ config.save_best_only
                THEN LET ckpt == [Checkpoint(current_epoch)
                                    EXCEPT !.best_val_acc = newbest]
                     IN TorchSave(TorchSave(files, BestEpochFile(epoch + 1), ckpt),
                                  BestFile, ckpt)
                ELSE files
    /\ pc' = IF IsAdvanced THEN "save_checkpoint" ELSE "early_stopping"
    /\ UNCHANGED <<config, epoch, batch_idx, current_epoch, val_acc,
                   val_history, model_state, optimizer_state, scheduler_state,
                   grad_pending, ops, log_saved, raised>>

\* mutant: only the best epochs are checkpointed
SaveCheckpointBestOnly ==
    /\ pc = "save_checkpoint"
    /\ LET ckpt == Checkpoint(epoch)
       IN files' = IF is_best
                   THEN TorchSave(TorchSave(files, CheckpointFile(epoch), ckpt),
                                  BestFile, ckpt)
                   ELSE files
    /\ pc' = "store_history"
    /\ UNCHANGED <<config, epoch, batch_idx, current_epoch, best_val_acc,
                   epochs_without_improvement, val_acc, is_best, val_history,
                   model_state, optimizer_state, scheduler_state, grad_pending,
                   ops, log_saved, raised>>
\* AdvancedTrainer: self.save_checkpoint(epoch, val_metrics, is_best)
SaveCheckpoint ==
    /\ pc = "save_checkpoint"
    /\ LET ckpt == Checkpoint(epoch)
           saved == TorchSave(files, CheckpointFile(epoch), ckpt)
       IN files' = IF is_best THEN TorchSave(saved, BestFile, ckpt) ELSE saved
    /\ pc' = "store_history"
    /\ UNCHANGED <<config, epoch, batch_idx, current_epoch, best_val_acc,
                   epochs_without_improvement, val_acc, is_best, val_history,
                   model_state, optimizer_state, scheduler_state, grad_pending,
                   ops, log_saved, raised>>

\* AdvancedTrainer: self.training_history.append(...)
StoreHistory ==
    /\ pc = "store_history"
    /\ val_history' = Append(val_history, val_acc)
    /\ pc' = "early_stopping"
    /\ UNCHANGED <<config, epoch, batch_idx, current_epoch, best_val_acc,
                   epochs_without_improvement, val_acc, is_best, model_state,
                   optimizer_state, scheduler_state, grad_pending, ops, files,
                   log_saved, raised>>

\* mutant: early stopping returns from train() instead of leaving the loop
EarlyStoppingReturns ==
    /\ pc = "early_stopping"
    /\ pc' = IF ShouldStop(epochs_without_improvement,
                           config.early_stopping_patience)
             THEN "finished" ELSE "for"
    /\ UNCHANGED <<config, epoch, batch_idx, current_epoch, best_val_acc,
                   epochs_without_improvement, val_acc, is_best, val_history,
                   model_state, optimizer_state, scheduler_state, grad_pending,
                   ops, files, log_saved, raised>>
\* if epochs_without_improvement >= patience: break
EarlyStopping ==
    /\ pc = "early_stopping"
    /\ pc' = IF ShouldStop(epochs_without_improvement,
                           config.early_stopping_patience)
             THEN "save_log" ELSE "for"
    /\ UNCHANGED <<config, epoch, batch_idx, current_epoch, best_val_acc,
                   epochs_without_improvement, val_acc, is_best, val_history,
                   model_state, optimizer_state, scheduler_state, grad_pending,
                   ops, files, log_saved, raised>>

\* save_training_log() / json.dump(self.training_history): the run is finished
SaveTrainingLog ==
    /\ pc = "save_log"
    /\ log_saved' = TRUE
    /\ pc' = "finished"
    /\ UNCHANGED <<config, epoch, batch_idx, current_epoch, best_val_acc,
                   epochs_without_improvement, val_acc, is_best, val_history,
                   model_state, optimizer_state, scheduler_state, grad_pending,
                   ops, files, raised>>

TrainerStep ==
    \/ ForEpoch
    \/ TrainBatch
    \/ TrainEpochReturn
    \/ ValidateBatch
    \/ ValidateReturn
    \/ SchedulerStep
    \/ SaveLast
    \/ CheckBest
    \/ SaveCheckpoint
    \/ StoreHistory
    \/ EarlyStopping
    \/ SaveTrainingLog


(***************************************************************************)
(* Data preprocessor (data/preprocess.py).                                 *)
(* Ratios are fixed-point numbers in units of 1e-8.                        *)
(***************************************************************************)
\* 1.0 in ratio units
One == 100000000
\* np.isclose defaults: atol = 1e-8, rtol = 1e-5 (as a divisor)
Atol == 1
RtolInv == 100000

Abs(x) == IF x < 0 THEN -x ELSE x

\* the double atol + rtol * 1.0 = 1.001e-05 exceeds the decimal 1001 units by
\* 7.22e-22: BoundErr in units of 1e-24
BoundErr == 722

\* np.isclose(a, b): |a - b| <= atol + rtol * |b|, computed on doubles.  The
\* double a is a.units plus its rounding error a.err, in units of 1e-24; b is
\* a double that is exact in ratio units, as 1.0 is.  A sum that is 1001
\* units from 1.0 in decimal is close or not by its rounding error: 0.7 +
\* 0.15 + 0.14998999 gives |a - b| = 1.0010000000004737e-05 (not close),
\* 0.05 + 0.55 + 0.39998999 gives 1.0009999999893715e-05 (close).
IsClose(a, b) ==
    LET d == a.units - b
        up == d > 0 \/ (d = 0 /\ a.err >= 0)
        mag == IF up THEN d ELSE -d
        rest == IF up THEN a.err ELSE -a.err
        bound == Atol + Abs(b) \div RtolInv
    IN mag < bound \/ (mag = bound /\ rest <= BoundErr)

\* mutant: the ratios are never validated
RatiosAcceptedAlways(a) == TRUE
\* np.isclose(train_split + val_split + test_split, 1.0); a.err is the
\* rounding error of the double sum
RatiosAccepted(a) ==
    IsClose([units |-> a.train + a.val + a.test, err |-> a.err], One)

RequiredCols == {"image_path", "lat", "lon", "type", "source"}

\* tag types in the order np.unique / LabelEncoder sort them
TagTypeOrder == <<"Elevator", "Entrance", "Obstacle", "Parking", "Ramp">>
TagTypes == {TagTypeOrder[i] : i \in 1..Len(TagTypeOrder)}
\* the tag types of the small CSVs
CsvTagTypes == {"Elevator", "Ramp"}

\* percent -> ratio units
Pct(x) == x * (One \div 100)

\* the ratio triples tried, each with the rounding error of its double sum
\* train + val + test in units of 1e-24: two that sum to 1.0, one whose test
\* share is 0, one within np.isclose's tolerance of 1.0, the last sum above
\* 1.0 that is close and the first that is not, two sums 1001 units below
\* 1.0, one that is not close and one that is, one far off
RatioTriples ==
    {[train |-> Pct(70), val |-> Pct(15), test |-> Pct(15), err |-> 0],
     [train |-> Pct(40), val |-> Pct(30), test |-> Pct(30), err |-> 0],
     [train |-> Pct(85), val |-> Pct(15), test |-> 0, err |-> 0],
     [train |-> Pct(70), val |-> Pct(15), test |-> Pct(15) + 500,
      err |-> 32756020],
     [train |-> Pct(70), val |-> Pct(15), test |-> Pct(15) + 1000,
      err |-> 65512040],
     [train |-> Pct(70), val |-> Pct(15), test |-> Pct(15) + 1001,
      err |-> 4737331],
     [train |-> Pct(70), val |-> Pct(15), test |-> Pct(15) - 1001,
      err |-> -4737331],
     [train |-> Pct(5), val |-> Pct(55), test |-> Pct(40) - 1001,
      err |-> 106284972],
     [train |-> Pct(70), val |-> Pct(20), test |-> Pct(20),
      err |-> -133226763]}

Seeds == {42, 7}

\* largest number of rows of the input CSV
MaxRows == 7

\* source values in sorted order
SourceOrder == <<"model", "osm", "user">>

\* the rows of a CSV of n rows: any types; a value of a required column is
\* missing in no row or in the last; the image file of no row or of the
\* first is missing on disk; sources and coordinates vary with the row
CsvRows(n) ==
    {[i \in 1..n |-> [type |-> t[i], null |-> i \in nl, image |-> i \notin ni,
                      source |-> SourceOrder[((i - 1) % Len(SourceOrder)) + 1],
                      lat |-> i, lon |-> 2 * (i % 2)]] :
        t \in [1..n -> CsvTagTypes],
        nl \in {{}, {n}}, ni \in {{}, {1}}}

\* a CSV of 500 complete rows, 100 of each of the five tag types
EvenCsv ==
    [columns |-> RequiredCols,
     rows |-> [i \in 1..(100 * Len(TagTypeOrder)) |->
                 [type |-> TagTypeOrder[((i - 1) % Len(TagTypeOrder)) + 1],
                  null |-> FALSE, image |-> TRUE,
                  source |-> SourceOrder[((i - 1) % Len(SourceOrder)) + 1],
                  lat |-> i % 7, lon |-> i % 3]]]

Csvs ==
    {[columns |-> RequiredCols \ m, rows |-> r] :
        m \in {{}, {"source"}, {"lat", "type"}},
        r \in UNION {CsvRows(n) : n \in 0..MaxRows}}
    \cup {EvenCsv}

(***************************************************************************)
(* Sequence helpers.                                                       *)
(***************************************************************************)
\* the sum of a sequence of numbers, by halves
RECURSIVE SumSeq(_)
SumSeq(s) ==
    IF s = <<>> THEN 0
    ELSE IF Len(s) = 1 THEN s[1]
    ELSE LET h == Len(s) \div 2
         IN SumSeq(SubSeq(s, 1, h)) + SumSeq(SubSeq(s, h + 1, Len(s)))

\* the ids of s whose row has type t, in order
SelectIds(s, rows, t) == SelectSeq(s, LAMBDA i : rows[i].type = t)

\* the set of elements of a sequence
Range(s) == {s[i] : i \in 1..Len(s)}

(***************************************************************************)
(* numpy's legacy generator RandomState: the Mersenne Twister MT19937.     *)
(* A generator is [seed, pos]: the seed it was seeded with and the number  *)
(* of 32-bit outputs drawn since.                                          *)
(***************************************************************************)
\* the seeds the process-global generator may have been given by the OS at
\* import
GlobalRngStates == {11, 29}

\* genrand_int32 after init_genrand(seed): the low 10 bits of the first 2048
\* outputs, enough for sequences of up to 1024 elements, per seed
Mt19937 ==
    42 :>
    <<102, 435, 860, 270, 106, 71, 700, 20, 614, 121, 466, 214, 330, 458, 87, 372,
      99, 871, 663, 130, 661, 308, 769, 343, 491, 413, 805, 385, 191, 955, 276, 160,
      459, 313, 21, 252, 747, 856, 560, 474, 58, 510, 681, 1023, 475, 699, 975, 782,
      189, 957, 686, 957, 562, 875, 566, 243, 831, 504, 130, 484, 818, 646, 20, 840,
      166, 273, 387, 600, 315, 13, 241, 1017, 776, 345, 564, 897, 339, 91, 366, 955,
      454, 427, 508, 775, 942, 34, 205, 80, 931, 561, 871, 387, 1, 1021, 389, 565,
      105, 771, 821, 476, 702, 401, 729, 555, 161, 201, 957, 995, 269, 862, 815, 270,
      455, 461, 726, 251, 1016, 701, 295, 724, 719, 748, 337, 878, 52, 791, 921, 216,
      763, 187, 379, 492, 40, 156, 14, 812, 64, 856, 838, 520, 343, 128, 1003, 647,
      471, 62, 138, 498, 592, 391, 674, 418, 288, 378, 772, 489, 230, 1017, 40, 27,
      134, 200, 839, 779, 929, 32, 47, 502, 406, 573, 727, 804, 98, 683, 871, 725,
      986, 546, 960, 738, 612, 942, 461, 642, 768, 4, 217, 502, 766, 397, 870, 794,
      392, 206, 14, 857, 553, 891, 460, 690, 574, 863, 742, 240, 563, 1020, 95, 899,
      733, 484, 406, 230, 748, 654, 170, 540, 35, 524, 159, 838, 698, 242, 85, 795,
      577, 681, 556, 573, 952, 1012, 645, 795, 27, 619, 555, 339, 797, 957, 330, 639,
      505, 1014, 347, 472, 230, 189, 224, 384, 376, 282, 957, 632, 627, 972, 744, 258,
      358, 709, 455, 410, 648, 317, 676, 224, 818, 233, 683, 663, 974, 826, 373, 671,
      607, 471, 232, 691, 112, 829, 496, 441, 563, 267, 509, 806, 385, 386, 112, 612,
      624, 951, 80, 698, 112, 1, 641, 219, 565, 854, 996, 735, 224, 384, 402, 637,
      129, 52, 683, 729, 671, 709, 415, 246, 835, 438, 202, 183, 122, 400, 766, 293,
      279, 836, 883, 609, 197, 981, 906, 510, 751, 143, 608, 200, 123, 186, 325, 463,
      348, 770, 659, 763, 954, 931, 402, 345, 962, 510, 146, 147, 863, 710, 819, 488,
      928, 935, 639, 550, 337, 871, 640, 778, 987, 952, 472, 945, 150, 414, 989, 297,
      610, 262, 763, 143, 345, 623, 1016, 1011, 571, 880, 1, 896, 303, 253, 651, 452,
      36, 159, 1018, 1014, 8, 232, 98, 658, 815, 207, 130, 403, 151, 53, 119, 672,
      919, 627, 586, 624, 967, 419, 421, 103, 851, 253, 226, 111, 509, 472, 98, 152,
      860, 913, 895, 877, 337, 705, 821, 162, 719, 956, 680, 995, 160, 579, 800, 397,
      276, 815, 915, 503, 895, 391, 134, 194, 400, 639, 32, 687, 459, 954, 882, 469,
      374, 21, 749, 669, 37, 229, 364, 562, 437, 775, 282, 26, 225, 276, 797, 608,
      283, 878, 959, 480, 452, 1019, 828, 815, 658, 515, 546, 191, 48, 511, 16, 171,
      219, 157, 476, 45, 372, 517, 98, 891, 744, 36, 279, 348, 496, 301, 180, 606,
      98, 699, 992, 115, 190, 252, 980, 927, 982, 160, 255, 322, 127, 17, 792, 1001,
      734, 565, 569, 322, 871, 685, 791, 625, 287, 942, 853, 662, 961, 638, 154, 489,
      385, 985, 784, 103, 928, 392, 810, 245, 175, 38, 476, 681, 758, 537, 866, 817,
      920, 407, 524, 827, 505, 902, 824, 35, 684, 19, 320, 775, 511, 1005, 399, 653,
      971, 882, 470, 142, 91, 353, 833, 799, 726, 958, 853, 50, 664, 697, 574, 189,
      124, 149, 313, 569, 341, 304, 691, 681, 837, 782, 53, 1002, 443, 612, 992, 263,
      52, 571, 1003, 619, 4, 102, 195, 773, 876, 991, 883, 349, 46, 866, 822, 935,
      819, 655, 268, 369, 635, 105, 669, 658, 656, 119, 830, 786, 603, 57, 950, 345,
      740, 473, 116, 829, 790, 126, 392, 907, 1012, 640, 57, 633, 512, 750, 801, 95,
      637, 117, 559, 600, 487, 236, 884, 896, 271, 188, 998, 703, 446, 580, 789, 860,
      246, 962, 75, 153, 655, 434, 996, 85, 696, 284, 973, 219, 68, 46, 1008, 93,
      749, 957, 1011, 452, 203, 911, 217, 473, 431, 340, 550, 611, 288, 253, 733, 356,
      22, 761, 521, 757, 836, 99, 801, 179, 222, 905, 761, 658, 441, 607, 768, 1015,
      324, 1004, 515, 15, 791, 335, 758, 257, 496, 987, 895, 159, 474, 851, 663, 907,
      689, 674, 379, 544, 928, 956, 690, 426, 612, 267, 834, 576, 416, 167, 841, 42,
      555, 284, 396, 11, 606, 301, 897, 252, 498, 753, 34, 726, 848, 89, 775, 604,
      921, 969, 601, 1021, 417, 114, 616, 902, 195, 825, 500, 625, 492, 74, 412, 375,
      419, 728, 276, 1020, 760, 675, 393, 868, 456, 919, 191, 738, 688, 98, 1007, 547,
      977, 1008, 998, 95, 663, 662, 189, 735, 36, 779, 368, 694, 524, 278, 216, 866,
      872, 797, 272, 880, 61, 595, 879, 728, 341, 396, 698, 18, 176, 611, 395, 444,
      232, 914, 75, 264, 454, 795, 717, 734, 383, 563, 850, 505, 366, 143, 884, 68,
      98, 395, 24, 947, 890, 468, 483, 564, 150, 143, 568, 38, 108, 692, 41, 185,
      934, 397, 222, 633, 132, 162, 214, 732, 234, 842, 657, 750, 587, 8, 73, 953,
      491, 912, 252, 229, 518, 173, 652, 167, 169, 392, 945, 794, 633, 193, 516, 28,
      164, 421, 338, 647, 495, 364, 832, 341, 499, 656, 510, 326, 216, 300, 131, 803,
      69, 251, 414, 786, 444, 875, 181, 166, 90, 713, 857, 530, 38, 125, 450, 172,
      652, 753, 219, 637, 57, 659, 475, 455, 828, 894, 360, 934, 0, 386, 972, 347,
      189, 504, 190, 507, 368, 408, 823, 928, 933, 116, 133, 57, 555, 684, 671, 172,
      828, 814, 148, 79, 885, 212, 202, 763, 228, 675, 226, 658, 531, 440, 401, 46,
      232, 304, 525, 142, 414, 512, 372, 565, 885, 258, 655, 470, 952, 970, 11, 329,
      735, 783, 967, 357, 971, 407, 667, 372, 7, 121, 347, 675, 89, 647, 697, 315,
      177, 539, 731, 868, 40, 739, 703, 922, 501, 958, 144, 200, 928, 1012, 723, 460,
      731, 751, 924, 908, 557, 546, 252, 389, 593, 882, 255, 708, 814, 920, 449, 9,
      823, 797, 241, 250, 876, 4, 118, 1015, 800, 373, 64, 145, 223, 238, 176, 778,
      852, 281, 62, 216, 853, 826, 794, 688, 460, 928, 609, 104, 98, 510, 384, 404,
      1007, 822, 517, 475, 976, 708, 862, 644, 869, 770, 436, 22, 996, 564, 676, 713,
      457, 82, 144, 84, 77, 456, 877, 0, 50, 684, 716, 771, 445, 448, 880, 487,
      799, 33, 347, 94, 71, 550, 153, 249, 673, 437, 117, 770, 890, 305, 267, 960,
      53, 235, 388, 989, 733, 762, 824, 400, 623, 766, 302, 918, 206, 228, 852, 909,
      577, 74, 434, 102, 421, 703, 763, 737, 805, 305, 97, 849, 797, 334, 858, 434,
      446, 993, 307, 248, 165, 480, 983, 334, 1019, 541, 758, 105, 562, 80, 132, 796,
      899, 137, 183, 400, 329, 784, 507, 851, 983, 68, 545, 773, 52, 449, 204, 125,
      746, 42, 751, 970, 882, 110, 760, 662, 182, 847, 94, 970, 373, 911, 519, 899,
      359, 899, 695, 280, 194, 863, 194, 666, 92, 671, 945, 60, 633, 50, 402, 788,
      4, 465, 603, 681, 828, 533, 404, 837, 512, 644, 232, 523, 345, 45, 545, 944,
      77, 729, 812, 922, 72, 793, 248, 46, 120, 213, 238, 55, 349, 106, 830, 47,
      572, 336, 25, 803, 256, 7, 624, 866, 252, 691, 718, 302, 638, 55, 725, 525,
      473, 27, 982, 77, 215, 385, 364, 665, 525, 698, 311, 882, 6, 2, 622, 918,
      749, 362, 750, 507, 1004, 273, 505, 805, 738, 882, 14, 191, 984, 630, 484, 27,
      713, 38, 952, 272, 230, 85, 473, 125, 811, 536, 144, 524, 211, 24, 579, 393,
      66, 232, 108, 145, 110, 227, 110, 469, 33, 622, 775, 935, 368, 747, 594, 553,
      424, 612, 517, 691, 281, 319, 737, 442, 951, 314, 876, 965, 740, 376, 288, 436,
      661, 276, 709, 581, 502, 623, 515, 349, 842, 445, 829, 349, 606, 663, 822, 136,
      758, 898, 242, 542, 39, 228, 547, 919, 222, 5, 321, 467, 731, 74, 3, 846,
      645, 117, 880, 605, 503, 997, 946, 573, 440, 193, 846, 714, 391, 25, 434, 172,
      299, 644, 325, 409, 117, 835, 786, 723, 224, 531, 112, 139, 558, 0, 89, 653,
      319, 549, 804, 893, 138, 510, 867, 844, 1002, 258, 672, 901, 689, 1015, 9, 260,
      918, 649, 171, 897, 12, 167, 641, 595, 320, 318, 612, 328, 784, 776, 970, 910,
      919, 549, 1014, 418, 605, 94, 816, 580, 317, 955, 235, 945, 333, 884, 375, 458,
      136, 929, 587, 994, 546, 512, 295, 319, 917, 571, 831, 348, 839, 778, 872, 228,
      269, 827, 797, 290, 724, 164, 4, 850, 378, 77, 409, 573, 131, 600, 748, 41,
      88, 401, 295, 839, 294, 615, 525, 799, 690, 636, 421, 864, 22, 574, 142, 992,
      664, 144, 224, 1006, 502, 961, 973, 820, 615, 103, 946, 38, 946, 197, 645, 578,
      390, 178, 967, 553, 447, 499, 14, 622, 668, 288, 1011, 477, 230, 922, 419, 156,
      549, 440, 96, 1020, 996, 410, 950, 288, 253, 195, 597, 833, 521, 516, 634, 841,
      864, 117, 805, 908, 158, 814, 227, 876, 215, 947, 695, 14, 156, 647, 260, 156,
      46, 323, 843, 684, 129, 410, 94, 626, 754, 931, 291, 793, 810, 282, 68, 659,
      10, 253, 841, 871, 549, 133, 711, 22, 814, 345, 301, 362, 395, 217, 140, 615,
      957, 209, 984, 992, 622, 615, 827, 682, 459, 1003, 355, 1007, 323, 132, 887, 804,
      839, 126, 105, 1008, 603, 798, 377, 904, 1013, 50, 28, 461, 295, 296, 725, 778,
      406, 768, 813, 612, 404, 345, 621, 419, 181, 982, 824, 0, 830, 949, 566, 370,
      935, 910, 660, 430, 968, 308, 136, 201, 435, 312, 116, 665, 936, 802, 574, 243,
      536, 601, 74, 805, 385, 902, 209, 474, 417, 346, 528, 639, 938, 954, 875, 762,
      178, 181, 663, 24, 966, 179, 709, 500, 855, 160, 176, 284, 62, 1002, 661, 665,
      155, 881, 468, 48, 966, 848, 83, 360, 688, 147, 629, 341, 475, 62, 700, 359,
      560, 326, 768, 735, 140, 989, 214, 434, 890, 951, 722, 317, 31, 669, 284, 304,
      428, 476, 285, 143, 423, 18, 17, 768, 589, 370, 174, 1009, 193, 501, 987, 112,
      113, 221, 677, 946, 830, 643, 896, 263, 924, 54, 870, 642, 799, 777, 457, 978,
      877, 161, 379, 992, 86, 54, 475, 799, 177, 390, 348, 7, 832, 312, 758, 834,
      983, 982, 442, 766, 1020, 327, 53, 760, 238, 228, 578, 50, 608, 603, 1006, 263,
      417, 802, 95, 87, 77, 287, 119, 813, 490, 911, 451, 499, 164, 181, 468, 909,
      734, 822, 943, 977, 6, 329, 774, 672, 150, 84, 146, 623, 380, 914, 547, 284,
      699, 81, 513, 896, 814, 708, 915, 522, 745, 1022, 385, 706, 470, 118, 395, 531,
      260, 804, 933, 255, 733, 904, 225, 52, 939, 866, 499, 505, 853, 363, 279, 592,
      713, 157, 631, 58, 1005, 726, 127, 735, 720, 881, 114, 208, 525, 520, 551, 961,
      236, 280, 358, 200, 757, 277, 234, 493, 3, 665, 441, 28, 108, 609, 726, 804,
      74, 837, 145, 127, 852, 41, 355, 40, 933, 33, 16, 676, 152, 997, 377, 587,
      598, 628, 873, 341, 980, 26, 824, 286, 645, 730, 167, 609, 267, 748, 1016, 820,
      454, 905, 684, 400, 921, 980, 475, 701, 633, 557, 575, 129, 1019, 821, 362, 704,
      818, 692, 291, 370, 793, 28, 148, 778, 295, 10, 511, 675, 112, 186, 806, 743,
      226, 309, 97, 54, 622, 663, 757, 405, 68, 311, 288, 761, 547, 750, 147, 466,
      738, 243, 490, 848, 957, 506, 364, 1002, 481, 200, 153, 449, 500, 72, 712, 295,
      16, 640, 216, 60, 938, 615, 41, 24, 38, 802, 130, 497, 228, 107, 171, 434,
      477, 101, 865, 523, 274, 612, 43, 954, 1018, 816, 956, 16, 329, 568, 822, 496,
      814, 11, 317, 591, 215, 338, 775, 990, 660, 80, 726, 484, 373, 975, 709, 199,
      536, 465, 88, 267, 654, 570, 921, 488, 876, 537, 46, 287, 777, 15, 710, 400,
      918, 793, 980, 85, 249, 390, 781, 334, 628, 518, 136, 882, 687, 839, 497, 826>>
    @@
    7 :>
    <<175, 196, 537, 502, 579, 211, 919, 615, 348, 185, 398, 535, 584, 345, 366, 554,
      730, 904, 167, 998, 68, 432, 895, 391, 940, 512, 75, 823, 250, 6, 787, 444,
      44, 703, 325, 824, 152, 183, 949, 112, 763, 189, 960, 290, 312, 201, 462, 550,
      772, 494, 137, 855, 483, 195, 72, 851, 944, 257, 704, 400, 374, 927, 349, 940,
      604, 764, 583, 279, 522, 745, 803, 448, 317, 391, 151, 92, 759, 224, 661, 356,
      931, 481, 579, 891, 219, 481, 19, 923, 516, 787, 33, 123, 286, 697, 741, 841,
      989, 977, 895, 415, 130, 83, 946, 402, 21, 631, 579, 203, 954, 47, 784, 524,
      349, 107, 745, 393, 844, 835, 622, 654, 636, 276, 309, 1020, 911, 827, 35, 816,
      260, 811, 456, 474, 762, 566, 555, 1007, 215, 973, 434, 39, 131, 413, 908, 460,
      847, 797, 648, 566, 678, 373, 710, 661, 44, 987, 647, 721, 1002, 495, 197, 100,
      180, 1001, 169, 29, 282, 832, 764, 190, 726, 738, 12, 646, 488, 930, 443, 106,
      622, 884, 497, 349, 486, 234, 529, 5, 847, 49, 438, 332, 617, 1000, 988, 182,
      687, 421, 969, 599, 661, 260, 475, 588, 233, 331, 774, 888, 225, 469, 85, 670,
      875, 476, 824, 819, 247, 183, 633, 908, 76, 877, 932, 711, 85, 698, 809, 230,
      911, 811, 315, 850, 575, 924, 400, 901, 35, 589, 288, 629, 727, 991, 161, 45,
      936, 628, 475, 398, 45, 873, 42, 864, 290, 95, 880, 183, 230, 914, 265, 969,
      269, 341, 939, 1, 287, 910, 208, 560, 665, 497, 1006, 161, 981, 979, 255, 338,
      576, 461, 826, 266, 1022, 436, 506, 539, 156, 8, 759, 481, 612, 985, 428, 766,
      947, 822, 298, 348, 519, 753, 143, 640, 210, 231, 1004, 688, 448, 44, 521, 814,
      440, 994, 176, 639, 427, 517, 917, 144, 1001, 11, 874, 160, 808, 548, 69, 924,
      363, 605, 49, 829, 366, 490, 436, 1008, 735, 647, 92, 495, 826, 690, 688, 846,
      559, 638, 958, 461, 211, 105, 77, 536, 67, 903, 561, 490, 416, 33, 331, 859,
      68, 230, 607, 637, 763, 1009, 573, 862, 78, 876, 427, 588, 400, 369, 634, 410,
      992, 380, 1003, 865, 520, 692, 606, 865, 719, 406, 184, 181, 546, 780, 260, 44,
      311, 276, 811, 433, 274, 184, 661, 946, 121, 406, 18, 965, 871, 247, 5, 645,
      838, 479, 157, 400, 938, 246, 942, 68, 238, 102, 717, 450, 908, 822, 88, 1021,
      91, 1019, 439, 16, 494, 380, 645, 104, 605, 73, 428, 695, 295, 206, 966, 190,
      386, 549, 342, 241, 814, 265, 675, 527, 916, 672, 867, 917, 198, 468, 896, 212,
      545, 533, 834, 267, 303, 139, 36, 456, 749, 683, 765, 711, 821, 775, 405, 126,
      275, 999, 854, 301, 434, 227, 894, 849, 545, 776, 884, 719, 970, 786, 987, 443,
      593, 986, 103, 896, 584, 909, 152, 268, 689, 226, 195, 124, 608, 730, 337, 715,
      129, 805, 805, 950, 496, 969, 859, 723, 555, 178, 852, 194, 111, 136, 762, 574,
      84, 313, 383, 944, 458, 160, 254, 890, 749, 834, 918, 892, 707, 937, 28, 693,
      79, 1012, 429, 614, 329, 873, 41, 292, 424, 780, 354, 676, 854, 709, 59, 335,
      131, 165, 370, 86, 686, 14, 996, 659, 178, 364, 293, 313, 494, 343, 581, 728,
      267, 538, 501, 290, 592, 809, 851, 802, 959, 1010, 842, 836, 195, 516, 616, 135,
      234, 826, 624, 258, 807, 952, 842, 72, 861, 516, 512, 692, 625, 983, 532, 636,
      477, 889, 543, 368, 561, 368, 234, 150, 670, 114, 832, 162, 84, 79, 404, 401,
      394, 0, 896, 226, 675, 119, 118, 156, 425, 803, 853, 998, 173, 856, 444, 214,
      87, 476, 243, 907, 376, 11, 885, 406, 924, 932, 834, 93, 359, 873, 310, 682,
      762, 392, 678, 90, 145, 144, 583, 630, 56, 245, 772, 766, 174, 67, 240, 727,
      942, 796, 684, 292, 31, 304, 552, 634, 917, 187, 255, 320, 28, 7, 555, 346,
      133, 332, 833, 213, 601, 692, 1009, 89, 1014, 378, 21, 614, 107, 376, 165, 793,
      382, 580, 413, 150, 32, 831, 470, 738, 10, 333, 675, 929, 550, 359, 624, 464,
      964, 919, 512, 82, 969, 774, 913, 258, 14, 686, 322, 287, 904, 77, 476, 169,
      154, 615, 786, 340, 535, 695, 924, 348, 891, 505, 719, 813, 865, 960, 769, 792,
      615, 826, 804, 554, 47, 854, 427, 897, 596, 200, 343, 686, 819, 381, 539, 291,
      206, 150, 628, 601, 117, 701, 951, 793, 1006, 542, 106, 588, 441, 942, 1005, 855,
      870, 761, 248, 443, 600, 342, 155, 386, 818, 402, 875, 485, 529, 52, 465, 516,
      601, 221, 843, 613, 766, 223, 570, 515, 926, 973, 453, 248, 743, 62, 0, 490,
      364, 120, 79, 444, 757, 100, 44, 653, 608, 116, 567, 1018, 480, 694, 331, 235,
      193, 352, 743, 390, 304, 387, 934, 567, 990, 900, 219, 616, 286, 794, 302, 55,
      553, 822, 499, 794, 91, 729, 959, 962, 661, 236, 980, 714, 497, 353, 37, 812,
      689, 722, 301, 849, 311, 494, 785, 226, 968, 886, 589, 62, 559, 69, 406, 552,
      819, 978, 577, 941, 949, 32, 180, 371, 711, 900, 29, 76, 356, 0, 229, 2,
      815, 341, 790, 329, 990, 854, 119, 437, 855, 939, 52, 778, 136, 843, 631, 295,
      824, 323, 495, 627, 839, 624, 784, 582, 775, 333, 16, 764, 2, 359, 644, 962,
      29, 229, 333, 191, 792, 192, 725, 867, 107, 239, 218, 733, 719, 644, 149, 238,
      667, 428, 376, 458, 411, 448, 85, 793, 877, 963, 5, 896, 685, 273, 842, 807,
      663, 487, 706, 979, 982, 844, 52, 792, 514, 711, 476, 613, 583, 251, 434, 188,
      745, 291, 352, 626, 281, 169, 724, 954, 819, 261, 438, 892, 767, 419, 591, 296,
      260, 411, 520, 65, 532, 258, 686, 491, 77, 776, 405, 139, 64, 10, 873, 632,
      881, 417, 795, 31, 907, 31, 996, 801, 265, 733, 846, 66, 841, 203, 1014, 505,
      121, 321, 482, 703, 81, 133, 623, 443, 678, 863, 50, 142, 502, 120, 721, 470,
      400, 880, 773, 881, 423, 124, 852, 124, 898, 22, 388, 750, 225, 871, 563, 352,
      472, 689, 822, 906, 16, 425, 480, 375, 627, 299, 442, 659, 786, 940, 722, 441,
      0, 1017, 524, 45, 277, 784, 174, 475, 956, 466, 271, 362, 250, 988, 403, 714,
      1007, 1013, 940, 491, 601, 832, 600, 544, 551, 688, 974, 421, 634, 39, 910, 539,
      435, 753, 752, 770, 502, 209, 696, 641, 494, 834, 242, 1007, 30, 329, 215, 752,
      836, 301, 812, 612, 926, 80, 69, 692, 679, 749, 449, 218, 352, 815, 762, 639,
      589, 459, 295, 907, 865, 805, 310, 600, 922, 980, 928, 422, 121, 307, 476, 850,
      112, 641, 428, 842, 1023, 202, 560, 360, 2, 799, 999, 159, 433, 527, 685, 761,
      902, 505, 596, 662, 904, 913, 543, 455, 298, 841, 859, 357, 1021, 927, 314, 840,
      422, 177, 750, 384, 799, 791, 608, 7, 256, 315, 158, 987, 483, 250, 944, 404,
      192, 827, 744, 502, 770, 198, 162, 880, 689, 589, 365, 246, 28, 900, 1017, 190,
      303, 148, 657, 295, 982, 338, 479, 87, 526, 528, 145, 135, 317, 327, 242, 35,
      368, 448, 405, 861, 158, 73, 697, 557, 952, 880, 137, 641, 916, 16, 655, 494,
      618, 218, 633, 35, 962, 19, 69, 845, 578, 480, 744, 806, 31, 523, 726, 831,
      960, 21, 767, 555, 1, 654, 594, 439, 163, 138, 738, 634, 689, 6, 266, 174,
      825, 922, 629, 878, 910, 519, 319, 221, 926, 106, 173, 856, 44, 712, 952, 888,
      217, 543, 809, 874, 88, 590, 569, 995, 335, 522, 417, 74, 639, 234, 304, 475,
      812, 49, 29, 799, 8, 254, 1003, 624, 761, 456, 599, 255, 292, 436, 574, 400,
      901, 735, 810, 972, 1004, 851, 963, 332, 230, 49, 573, 497, 460, 437, 418, 624,
      709, 80, 675, 836, 538, 429, 785, 819, 424, 85, 708, 722, 225, 515, 703, 334,
      771, 561, 646, 86, 477, 439, 1014, 711, 321, 589, 949, 851, 102, 196, 57, 208,
      36, 75, 211, 712, 831, 866, 508, 335, 444, 616, 922, 131, 509, 665, 476, 642,
      673, 105, 107, 222, 831, 854, 25, 244, 809, 854, 235, 391, 536, 223, 61, 74,
      975, 570, 751, 543, 894, 665, 598, 804, 342, 607, 606, 964, 453, 695, 668, 548,
      271, 208, 173, 533, 770, 661, 29, 516, 366, 149, 316, 813, 49, 327, 916, 276,
      724, 1006, 846, 322, 47, 520, 583, 534, 166, 781, 781, 408, 782, 80, 6, 668,
      306, 38, 574, 888, 644, 815, 494, 103, 56, 42, 195, 723, 331, 94, 420, 191,
      272, 893, 322, 74, 776, 493, 168, 642, 171, 543, 69, 70, 72, 480, 679, 382,
      659, 231, 920, 171, 741, 956, 85, 176, 886, 564, 379, 161, 733, 650, 446, 954,
      760, 659, 601, 661, 347, 212, 750, 535, 515, 282, 617, 790, 870, 93, 538, 478,
      85, 457, 859, 322, 871, 599, 62, 886, 459, 867, 494, 274, 799, 736, 79, 508,
      364, 618, 932, 798, 399, 783, 395, 713, 547, 656, 305, 160, 652, 462, 523, 703,
      157, 675, 466, 16, 429, 149, 1016, 883, 345, 162, 564, 714, 91, 121, 693, 785,
      967, 22, 486, 303, 508, 91, 3, 205, 585, 985, 526, 589, 809, 456, 872, 486,
      468, 158, 615, 276, 232, 336, 736, 345, 195, 469, 133, 183, 225, 136, 221, 781,
      239, 1016, 494, 304, 39, 235, 304, 102, 541, 225, 524, 569, 680, 632, 907, 65,
      597, 219, 41, 220, 609, 385, 268, 985, 134, 943, 355, 123, 394, 566, 749, 153,
      893, 467, 726, 209, 48, 678, 182, 221, 379, 608, 1020, 582, 889, 124, 208, 184,
      333, 782, 513, 30, 209, 994, 865, 59, 627, 448, 83, 618, 668, 261, 148, 851,
      40, 961, 826, 557, 335, 783, 53, 81, 777, 793, 289, 898, 633, 550, 256, 476,
      832, 136, 125, 390, 732, 368, 604, 736, 209, 981, 225, 647, 132, 581, 316, 559,
      741, 318, 542, 305, 477, 884, 511, 865, 382, 901, 472, 61, 512, 551, 912, 336,
      568, 332, 982, 67, 84, 132, 518, 677, 974, 756, 646, 391, 6, 815, 869, 52,
      417, 686, 843, 280, 510, 48, 954, 122, 509, 655, 621, 235, 975, 591, 245, 321,
      903, 481, 505, 157, 922, 283, 943, 302, 692, 462, 131, 155, 656, 246, 187, 872,
      972, 80, 949, 967, 1008, 997, 327, 1008, 240, 77, 843, 250, 530, 265, 812, 126,
      265, 642, 865, 580, 258, 478, 984, 965, 322, 817, 968, 706, 152, 253, 766, 216,
      817, 686, 934, 692, 122, 714, 473, 199, 407, 531, 126, 642, 201, 293, 811, 725,
      181, 175, 648, 671, 893, 283, 322, 597, 728, 67, 566, 22, 925, 297, 675, 409,
      926, 776, 534, 503, 326, 837, 957, 855, 800, 171, 173, 991, 828, 170, 260, 250,
      592, 642, 581, 175, 55, 918, 93, 383, 664, 980, 724, 304, 338, 833, 334, 1018,
      573, 123, 600, 581, 617, 800, 68, 148, 703, 159, 432, 364, 238, 32, 605, 714,
      1019, 945, 498, 948, 631, 795, 663, 906, 888, 887, 337, 872, 85, 166, 264, 522,
      387, 825, 542, 55, 322, 1014, 128, 305, 677, 870, 612, 725, 161, 599, 773, 787,
      616, 258, 282, 1021, 261, 950, 139, 61, 47, 550, 97, 686, 532, 387, 696, 580,
      573, 774, 663, 719, 176, 93, 676, 647, 47, 486, 621, 491, 902, 764, 907, 126,
      581, 624, 728, 925, 842, 573, 285, 307, 242, 170, 484, 369, 510, 948, 182, 601,
      120, 458, 22, 784, 720, 994, 464, 588, 451, 255, 306, 538, 476, 445, 244, 677,
      473, 483, 726, 904, 193, 671, 553, 558, 414, 732, 252, 260, 867, 952, 176, 91,
      356, 953, 177, 999, 218, 137, 26, 797, 754, 362, 948, 403, 68, 997, 348, 937,
      975, 860, 783, 622, 536, 285, 761, 1, 442, 531, 873, 814, 352, 497, 82, 963,
      416, 88, 245, 483, 1009, 768, 1017, 696, 207, 280, 354, 126, 202, 727, 546, 276,
      823, 564, 323, 364, 269, 90, 800, 15, 235, 449, 416, 385, 726, 829, 641, 213,
      489, 228, 654, 8, 92, 531, 643, 73, 346, 1015, 663, 683, 577, 815, 23, 951>>
    @@
    11 :>
    <<921, 703, 80, 91, 337, 951, 269, 332, 673, 583, 850, 792, 621, 604, 688, 765,
      416, 813, 236, 637, 900, 546, 140, 897, 842, 37, 501, 231, 468, 81, 91, 408,
      504, 657, 579, 326, 683, 370, 242, 704, 125, 79, 608, 23, 923, 838, 89, 363,
      138, 441, 27, 812, 245, 142, 263, 439, 335, 960, 680, 496, 283, 248, 735, 133,
      693, 839, 690, 227, 699, 1, 1008, 131, 904, 727, 465, 580, 328, 114, 672, 846,
      275, 921, 885, 90, 934, 443, 273, 43, 18, 509, 48, 138, 303, 110, 160, 428,
      40, 264, 452, 929, 385, 991, 873, 380, 75, 418, 72, 19, 224, 84, 818, 338,
      443, 493, 840, 38, 935, 546, 119, 886, 799, 756, 630, 868, 132, 924, 653, 185,
      321, 764, 90, 981, 630, 660, 362, 145, 367, 465, 446, 644, 842, 1006, 935, 931,
      661, 963, 931, 465, 518, 892, 872, 753, 314, 577, 167, 100, 968, 261, 805, 603,
      605, 252, 178, 637, 623, 981, 727, 10, 64, 945, 208, 885, 215, 555, 140, 900,
      506, 886, 546, 132, 748, 418, 156, 343, 529, 241, 981, 172, 225, 947, 35, 846,
      766, 450, 659, 403, 978, 688, 505, 619, 862, 498, 435, 15, 32, 152, 555, 787,
      727, 818, 585, 263, 141, 930, 76, 511, 125, 493, 114, 1014, 987, 185, 42, 42,
      955, 17, 383, 849, 460, 630, 459, 725, 811, 734, 241, 504, 721, 91, 312, 678,
      252, 978, 758, 385, 926, 934, 286, 632, 969, 986, 114, 302, 367, 47, 345, 989,
      59, 739, 596, 313, 283, 260, 5, 979, 705, 426, 108, 889, 469, 249, 760, 985,
      245, 226, 0, 263, 705, 848, 176, 639, 206, 689, 706, 578, 953, 831, 988, 122,
      246, 547, 801, 491, 138, 555, 560, 894, 256, 801, 471, 632, 24, 669, 843, 487,
      883, 45, 590, 404, 384, 193, 777, 917, 934, 999, 478, 743, 412, 261, 176, 233,
      575, 58, 675, 13, 78, 609, 36, 507, 51, 791, 555, 248, 350, 408, 666, 30,
      747, 747, 951, 880, 515, 558, 379, 1020, 208, 227, 745, 769, 854, 991, 628, 323,
      666, 773, 335, 673, 238, 940, 639, 29, 738, 132, 439, 151, 863, 717, 876, 368,
      628, 527, 438, 737, 698, 401, 581, 867, 747, 680, 489, 234, 830, 534, 366, 676,
      415, 853, 699, 50, 486, 619, 224, 89, 451, 462, 669, 793, 197, 51, 438, 182,
      875, 273, 749, 228, 770, 966, 443, 520, 688, 845, 853, 182, 753, 103, 777, 212,
      804, 59, 873, 322, 723, 744, 999, 126, 157, 75, 367, 244, 186, 981, 159, 58,
      354, 871, 386, 902, 308, 927, 594, 966, 843, 321, 770, 802, 245, 874, 65, 28,
      52, 740, 486, 338, 190, 589, 414, 102, 112, 701, 704, 693, 1007, 471, 682, 574,
      524, 364, 406, 359, 388, 290, 779, 723, 848, 1012, 499, 380, 817, 684, 666, 145,
      544, 111, 978, 848, 659, 284, 728, 225, 196, 646, 412, 417, 429, 939, 879, 466,
      912, 246, 85, 553, 68, 421, 567, 745, 422, 822, 613, 58, 957, 216, 213, 238,
      753, 721, 1013, 979, 238, 876, 17, 668, 743, 12, 747, 327, 520, 59, 389, 890,
      133, 889, 251, 948, 389, 779, 106, 918, 281, 933, 896, 480, 175, 209, 415, 970,
      845, 874, 543, 94, 698, 348, 72, 610, 624, 525, 440, 319, 231, 526, 789, 8,
      244, 34, 799, 479, 517, 883, 228, 391, 501, 944, 930, 108, 1015, 5, 631, 511,
      342, 438, 653, 549, 200, 637, 617, 458, 222, 116, 58, 694, 175, 373, 929, 760,
      445, 30, 718, 869, 491, 229, 749, 466, 266, 276, 428, 358, 13, 908, 377, 3,
      778, 462, 666, 711, 859, 986, 945, 19, 644, 816, 1000, 485, 706, 112, 156, 580,
      902, 204, 882, 868, 473, 579, 866, 114, 100, 806, 446, 173, 225, 195, 7, 113,
      16, 832, 928, 499, 136, 842, 642, 161, 166, 583, 668, 827, 142, 432, 495, 213,
      855, 803, 781, 892, 99, 383, 103, 830, 851, 343, 444, 741, 628, 541, 285, 870,
      675, 494, 132, 270, 774, 996, 644, 740, 9, 715, 870, 459, 338, 990, 280, 571,
      347, 0, 597, 1013, 706, 468, 858, 162, 651, 624, 663, 399, 301, 686, 556, 408,
      47, 808, 731, 598, 52, 956, 504, 167, 1019, 48, 146, 716, 230, 283, 520, 392,
      565, 106, 865, 254, 953, 791, 147, 251, 225, 909, 565, 718, 492, 891, 329, 322,
      687, 1012, 570, 13, 995, 838, 648, 440, 531, 54, 711, 54, 906, 642, 634, 211,
      218, 313, 928, 879, 554, 198, 420, 475, 321, 310, 682, 115, 779, 764, 555, 948,
      165, 10, 797, 478, 290, 55, 760, 184, 589, 839, 395, 799, 927, 859, 894, 723,
      623, 124, 595, 708, 693, 849, 285, 573, 831, 526, 360, 507, 847, 37, 588, 308,
      643, 976, 205, 459, 68, 746, 800, 882, 877, 460, 393, 552, 857, 75, 223, 651,
      139, 772, 684, 101, 917, 732, 10, 218, 360, 20, 367, 643, 712, 570, 649, 935,
      305, 574, 719, 542, 64, 639, 667, 413, 109, 465, 942, 761, 674, 765, 524, 297,
      609, 686, 337, 364, 178, 118, 228, 474, 481, 739, 112, 312, 248, 957, 21, 417,
      392, 257, 650, 161, 174, 541, 832, 853, 285, 992, 780, 999, 291, 180, 690, 528,
      150, 206, 197, 357, 522, 623, 845, 58, 668, 906, 946, 745, 249, 880, 586, 392,
      234, 861, 629, 313, 519, 976, 822, 752, 142, 817, 853, 465, 367, 238, 463, 600,
      806, 582, 846, 65, 120, 167, 583, 122, 153, 893, 895, 681, 338, 13, 12, 477,
      459, 545, 939, 406, 350, 994, 622, 244, 23, 478, 748, 384, 236, 547, 593, 1022,
      215, 171, 258, 1004, 574, 490, 837, 334, 982, 521, 156, 10, 32, 746, 542, 186,
      640, 564, 158, 410, 97, 6, 423, 510, 448, 884, 638, 242, 875, 808, 991, 205,
      381, 927, 534, 321, 30, 165, 533, 35, 545, 137, 392, 540, 399, 45, 779, 199,
      240, 738, 510, 887, 829, 681, 310, 299, 334, 297, 853, 147, 149, 192, 844, 1016,
      412, 718, 796, 729, 782, 7, 366, 364, 396, 587, 407, 975, 649, 778, 8, 961,
      706, 416, 566, 846, 884, 886, 3, 233, 436, 679, 652, 188, 419, 14, 30, 653,
      809, 753, 638, 443, 894, 286, 168, 380, 504, 440, 640, 45, 501, 305, 703, 914,
      935, 330, 564, 24, 424, 885, 468, 669, 27, 355, 661, 11, 1021, 575, 520, 642,
      878, 265, 74, 494, 334, 157, 1003, 98, 58, 345, 37, 807, 1003, 636, 1003, 790,
      608, 215, 765, 586, 907, 12, 108, 661, 332, 555, 585, 717, 96, 34, 919, 667,
      958, 443, 336, 339, 63, 229, 987, 421, 794, 816, 774, 728, 162, 817, 387, 1010,
      210, 161, 116, 904, 213, 917, 55, 560, 648, 916, 15, 951, 733, 649, 168, 134,
      370, 639, 601, 697, 582, 303, 992, 714, 165, 813, 502, 261, 1, 696, 723, 400,
      692, 955, 71, 931, 157, 429, 1014, 323, 100, 475, 797, 129, 507, 382, 47, 295,
      516, 301, 870, 203, 533, 313, 118, 758, 307, 837, 152, 149, 219, 410, 867, 813,
      587, 62, 4, 1021, 89, 78, 486, 414, 204, 167, 904, 853, 620, 929, 959, 816,
      939, 1014, 888, 341, 94, 849, 768, 903, 307, 131, 341, 858, 282, 84, 7, 408,
      159, 954, 904, 391, 768, 337, 600, 545, 113, 167, 645, 809, 686, 708, 261, 390,
      648, 759, 186, 37, 49, 219, 238, 559, 208, 198, 948, 111, 799, 847, 251, 699,
      10, 381, 439, 483, 306, 745, 357, 52, 421, 87, 209, 858, 335, 112, 20, 685,
      927, 200, 223, 1000, 303, 274, 233, 374, 871, 627, 656, 23, 162, 799, 642, 71,
      312, 824, 593, 263, 946, 515, 875, 375, 436, 675, 545, 968, 525, 125, 55, 894,
      75, 509, 976, 302, 513, 318, 762, 909, 143, 119, 48, 258, 207, 312, 443, 282,
      546, 379, 3, 523, 718, 507, 492, 680, 530, 367, 33, 994, 14, 440, 453, 705,
      982, 946, 1004, 101, 802, 351, 900, 487, 1020, 1023, 979, 560, 450, 328, 938, 479,
      1013, 268, 789, 602, 623, 850, 261, 822, 833, 81, 35, 1015, 40, 765, 824, 810,
      361, 275, 907, 813, 753, 734, 421, 753, 467, 547, 54, 910, 934, 793, 6, 807,
      376, 889, 742, 105, 650, 187, 147, 590, 72, 548, 179, 669, 624, 429, 994, 890,
      178, 568, 652, 282, 759, 1007, 891, 469, 814, 299, 882, 704, 49, 634, 629, 139,
      1013, 817, 775, 150, 591, 1011, 300, 888, 621, 755, 396, 157, 28, 103, 403, 954,
      658, 562, 437, 513, 322, 190, 364, 532, 529, 781, 841, 718, 624, 37, 451, 652,
      674, 321, 614, 211, 983, 669, 654, 91, 648, 596, 176, 226, 234, 724, 999, 507,
      154, 682, 139, 445, 149, 763, 153, 235, 532, 209, 76, 380, 773, 633, 431, 637,
      429, 248, 75, 665, 790, 794, 975, 102, 267, 209, 942, 312, 793, 302, 126, 97,
      504, 183, 23, 170, 840, 380, 275, 330, 562, 675, 96, 438, 483, 652, 393, 910,
      409, 892, 636, 744, 849, 683, 191, 850, 20, 153, 71, 212, 1019, 516, 946, 912,
      81, 475, 803, 615, 40, 224, 403, 124, 55, 375, 912, 449, 887, 478, 13, 426,
      228, 568, 206, 864, 78, 79, 714, 960, 109, 234, 59, 677, 559, 705, 364, 933,
      110, 372, 921, 1019, 377, 663, 142, 284, 376, 714, 365, 28, 437, 560, 315, 109,
      901, 281, 134, 323, 593, 422, 631, 517, 147, 139, 894, 131, 16, 541, 874, 490,
      406, 547, 721, 699, 780, 872, 626, 772, 644, 738, 598, 210, 297, 258, 898, 222,
      616, 851, 822, 634, 847, 827, 227, 264, 873, 488, 874, 723, 312, 231, 611, 884,
      121, 630, 57, 219, 471, 863, 966, 405, 451, 155, 788, 112, 281, 520, 244, 27,
      414, 939, 45, 939, 766, 327, 743, 929, 783, 322, 295, 263, 116, 134, 549, 528,
      657, 504, 532, 89, 721, 969, 755, 155, 296, 161, 495, 144, 574, 495, 37, 892,
      113, 877, 960, 222, 416, 374, 967, 343, 943, 915, 298, 520, 5, 838, 75, 904,
      79, 866, 658, 597, 860, 581, 607, 552, 172, 666, 258, 31, 634, 159, 711, 377,
      471, 864, 596, 109, 291, 799, 1015, 589, 581, 507, 662, 550, 636, 277, 435, 740,
      762, 665, 572, 332, 985, 523, 294, 284, 892, 829, 652, 1002, 584, 746, 668, 978,
      419, 877, 415, 97, 92, 485, 264, 449, 71, 181, 828, 771, 1004, 386, 388, 266,
      393, 630, 617, 198, 734, 848, 437, 225, 803, 549, 253, 184, 1023, 280, 763, 733,
      245, 974, 580, 110, 692, 957, 25, 951, 727, 579, 788, 668, 162, 258, 45, 564,
      739, 497, 339, 108, 205, 899, 241, 434, 979, 595, 172, 165, 940, 435, 425, 37,
      408, 428, 708, 558, 384, 946, 822, 108, 943, 1006, 797, 519, 927, 66, 865, 173,
      192, 283, 424, 215, 202, 750, 916, 556, 1012, 461, 701, 543, 579, 58, 666, 109,
      907, 563, 448, 775, 445, 981, 419, 153, 303, 923, 270, 569, 334, 731, 411, 142,
      104, 788, 728, 662, 343, 63, 106, 27, 471, 753, 393, 86, 756, 954, 680, 194,
      331, 743, 824, 954, 354, 871, 99, 716, 936, 954, 739, 128, 859, 770, 1023, 943,
      346, 485, 371, 282, 698, 154, 865, 591, 177, 297, 191, 531, 899, 146, 113, 546,
      143, 439, 450, 1000, 720, 656, 828, 381, 124, 360, 904, 872, 604, 196, 630, 956,
      34, 148, 943, 632, 905, 831, 959, 154, 711, 314, 752, 924, 663, 585, 228, 54,
      441, 387, 877, 559, 888, 704, 351, 307, 446, 625, 362, 971, 611, 586, 400, 693,
      444, 410, 238, 593, 243, 528, 122, 917, 289, 58, 491, 975, 730, 937, 43, 39,
      435, 1009, 331, 280, 507, 310, 589, 144, 811, 482, 867, 381, 656, 299, 976, 95,
      420, 129, 288, 675, 488, 783, 364, 202, 459, 103, 942, 184, 9, 516, 894, 538,
      373, 715, 558, 1022, 562, 378, 689, 120, 227, 392, 670, 890, 176, 808, 438, 707,
      421, 676, 874, 912, 64, 145, 338, 562, 303, 206, 469, 989, 890, 309, 759, 994,
      32, 757, 103, 474, 464, 439, 315, 368, 685, 75, 59, 798, 688, 262, 71, 856,
      723, 212, 759, 206, 19, 861, 1018, 238, 456, 394, 769, 607, 173, 303, 465, 790>>
    @@
    29 :>
    <<981, 371, 236, 509, 546, 808, 864, 361, 369, 920, 981, 723, 353, 862, 94, 1016,
      241, 459, 667, 69, 660, 974, 663, 320, 164, 130, 15, 614, 167, 479, 826, 963,
      928, 1018, 11, 536, 3, 379, 430, 716, 334, 282, 525, 662, 205, 279, 671, 212,
      766, 764, 800, 306, 208, 250, 980, 66, 616, 769, 891, 193, 20, 886, 721, 571,
      220, 902, 596, 187, 556, 285, 619, 633, 960, 718, 827, 956, 466, 815, 931, 132,
      115, 516, 184, 334, 528, 4, 975, 933, 179, 682, 744, 67, 302, 846, 987, 1004,
      132, 523, 740, 974, 237, 469, 666, 465, 289, 334, 220, 660, 342, 934, 270, 521,
      212, 683, 822, 92, 985, 689, 800, 728, 356, 162, 55, 262, 289, 918, 995, 341,
      953, 18, 742, 425, 92, 234, 786, 643, 233, 888, 732, 427, 583, 717, 275, 607,
      17, 65, 635, 92, 350, 953, 353, 481, 705, 0, 859, 750, 234, 52, 321, 571,
      589, 179, 901, 13, 488, 149, 937, 1022, 581, 213, 329, 396, 146, 174, 875, 275,
      763, 229, 305, 484, 774, 344, 456, 217, 483, 502, 125, 736, 698, 343, 401, 414,
      580, 144, 595, 872, 709, 908, 934, 807, 746, 88, 159, 655, 759, 435, 187, 387,
      83, 234, 367, 118, 990, 58, 910, 318, 675, 266, 147, 765, 966, 746, 214, 711,
      240, 984, 887, 410, 17, 239, 326, 1002, 231, 604, 733, 961, 1002, 919, 495, 676,
      74, 487, 938, 66, 71, 57, 789, 1017, 370, 588, 779, 494, 869, 220, 563, 651,
      794, 431, 140, 291, 48, 963, 7, 673, 623, 153, 362, 526, 605, 919, 173, 154,
      574, 206, 562, 315, 263, 402, 530, 291, 856, 13, 561, 368, 611, 625, 411, 478,
      873, 291, 3, 555, 443, 200, 105, 496, 1000, 428, 796, 671, 24, 448, 331, 383,
      378, 989, 742, 344, 234, 228, 340, 186, 105, 831, 81, 282, 410, 460, 792, 182,
      764, 363, 515, 607, 318, 150, 753, 170, 490, 18, 1009, 99, 871, 149, 358, 983,
      690, 560, 471, 377, 300, 592, 630, 926, 739, 819, 748, 249, 20, 567, 672, 8,
      483, 428, 773, 837, 262, 332, 215, 370, 648, 845, 190, 665, 893, 337, 840, 968,
      314, 145, 184, 290, 907, 84, 735, 833, 234, 390, 551, 681, 716, 843, 325, 306,
      79, 745, 912, 591, 849, 492, 24, 376, 967, 124, 660, 332, 244, 405, 243, 710,
      406, 35, 410, 209, 159, 996, 40, 474, 875, 929, 657, 45, 77, 761, 84, 779,
      369, 744, 325, 264, 486, 755, 155, 707, 336, 270, 177, 970, 811, 249, 535, 767,
      991, 206, 277, 957, 579, 730, 445, 571, 655, 474, 631, 346, 679, 177, 306, 770,
      226, 433, 139, 125, 950, 391, 388, 983, 301, 739, 969, 302, 567, 190, 184, 769,
      340, 876, 179, 443, 888, 133, 854, 577, 440, 189, 603, 209, 912, 481, 520, 311,
      399, 449, 719, 99, 455, 143, 198, 813, 839, 556, 470, 714, 894, 535, 937, 701,
      940, 410, 647, 54, 30, 972, 686, 517, 690, 334, 45, 512, 831, 750, 117, 996,
      552, 388, 617, 882, 964, 604, 24, 529, 988, 551, 22, 998, 718, 150, 633, 432,
      441, 885, 411, 192, 44, 813, 376, 886, 754, 473, 313, 793, 520, 90, 675, 554,
      949, 864, 484, 737, 355, 100, 202, 410, 789, 723, 485, 996, 44, 868, 346, 422,
      995, 412, 256, 385, 808, 543, 51, 634, 919, 625, 530, 299, 878, 334, 784, 817,
      330, 482, 406, 532, 824, 744, 999, 503, 443, 138, 857, 330, 827, 778, 261, 510,
      807, 96, 335, 76, 134, 408, 227, 277, 692, 23, 177, 815, 85, 905, 409, 361,
      695, 100, 923, 881, 741, 123, 158, 96, 800, 274, 562, 807, 230, 524, 740, 167,
      456, 884, 821, 568, 246, 719, 301, 513, 456, 424, 26, 1015, 702, 32, 785, 288,
      133, 1020, 606, 503, 616, 28, 801, 535, 621, 999, 231, 220, 535, 471, 618, 507,
      183, 630, 343, 43, 527, 28, 517, 624, 960, 472, 103, 237, 743, 283, 34, 143,
      530, 850, 706, 628, 738, 429, 655, 576, 809, 570, 210, 276, 88, 745, 874, 546,
      82, 646, 923, 771, 401, 353, 182, 866, 792, 783, 991, 668, 333, 545, 572, 423,
      613, 720, 663, 408, 731, 346, 805, 413, 554, 21, 3, 384, 904, 277, 464, 932,
      1018, 955, 377, 890, 243, 643, 911, 273, 25, 859, 966, 567, 677, 252, 122, 24,
      1005, 632, 179, 130, 934, 543, 405, 826, 182, 379, 982, 188, 396, 852, 341, 378,
      544, 1004, 48, 931, 489, 171, 652, 248, 574, 114, 445, 1007, 800, 226, 1021, 825,
      440, 628, 805, 607, 985, 833, 783, 151, 476, 91, 560, 325, 911, 294, 1, 478,
      29, 47, 459, 43, 971, 813, 609, 93, 958, 458, 246, 89, 544, 837, 308, 680,
      720, 891, 540, 254, 986, 1012, 985, 827, 419, 248, 428, 982, 478, 373, 992, 535,
      784, 644, 510, 652, 344, 218, 164, 770, 439, 762, 978, 519, 639, 349, 529, 23,
      157, 141, 519, 212, 318, 374, 685, 792, 699, 112, 213, 959, 412, 363, 743, 714,
      628, 673, 998, 640, 1016, 731, 421, 660, 103, 500, 840, 440, 615, 634, 567, 409,
      444, 585, 111, 988, 235, 419, 555, 267, 568, 725, 174, 860, 737, 272, 156, 438,
      823, 60, 312, 368, 438, 190, 486, 782, 897, 778, 317, 331, 7, 691, 568, 259,
      499, 798, 483, 171, 233, 329, 601, 391, 531, 570, 81, 162, 674, 90, 260, 83,
      363, 999, 16, 564, 687, 973, 934, 1015, 755, 344, 166, 844, 836, 1014, 419, 747,
      667, 534, 148, 689, 828, 70, 929, 483, 132, 952, 590, 604, 959, 730, 7, 974,
      234, 897, 802, 97, 661, 446, 321, 32, 893, 377, 223, 771, 883, 67, 13, 891,
      337, 350, 561, 834, 705, 37, 825, 732, 578, 913, 291, 334, 630, 350, 300, 694,
      534, 231, 798, 632, 15, 503, 872, 152, 584, 961, 500, 236, 474, 3, 984, 208,
      500, 55, 758, 212, 850, 645, 808, 791, 786, 548, 426, 802, 218, 105, 759, 611,
      37, 495, 317, 617, 853, 166, 864, 561, 920, 568, 129, 265, 792, 93, 464, 29,
      386, 851, 673, 922, 679, 840, 16, 261, 871, 53, 405, 240, 655, 476, 872, 804,
      339, 22, 826, 240, 796, 1017, 215, 365, 482, 112, 222, 33, 768, 94, 874, 543,
      235, 931, 411, 28, 88, 329, 642, 628, 361, 651, 435, 1016, 334, 609, 472, 760,
      1009, 329, 980, 795, 449, 382, 13, 171, 80, 312, 749, 617, 973, 156, 558, 40,
      682, 412, 622, 583, 462, 502, 328, 512, 690, 366, 990, 586, 707, 581, 457, 276,
      733, 502, 649, 52, 201, 983, 165, 482, 50, 136, 376, 285, 1018, 728, 594, 18,
      879, 639, 627, 672, 741, 327, 221, 537, 505, 769, 121, 458, 777, 695, 877, 491,
      923, 200, 962, 958, 900, 415, 324, 582, 460, 674, 431, 868, 559, 571, 302, 978,
      776, 186, 319, 513, 311, 630, 3, 388, 123, 1022, 429, 175, 110, 344, 250, 812,
      988, 409, 615, 340, 427, 58, 96, 560, 960, 311, 842, 46, 814, 833, 841, 611,
      408, 540, 120, 964, 1014, 112, 362, 489, 446, 145, 580, 75, 877, 872, 336, 32,
      980, 795, 385, 307, 216, 361, 596, 101, 716, 496, 839, 499, 591, 295, 959, 512,
      625, 874, 366, 328, 883, 408, 580, 482, 332, 333, 78, 165, 843, 1016, 940, 258,
      797, 309, 483, 255, 397, 525, 367, 285, 262, 904, 347, 249, 683, 606, 633, 834,
      161, 262, 669, 208, 119, 154, 55, 471, 345, 1007, 765, 712, 395, 101, 209, 603,
      339, 102, 182, 5, 508, 549, 68, 383, 785, 15, 91, 504, 539, 410, 662, 489,
      1016, 370, 719, 202, 676, 993, 726, 131, 505, 407, 172, 307, 594, 170, 76, 29,
      439, 238, 196, 889, 760, 353, 632, 417, 170, 106, 562, 756, 629, 893, 848, 38,
      797, 88, 939, 590, 90, 237, 692, 782, 1014, 1022, 208, 769, 859, 423, 352, 126,
      963, 580, 279, 279, 320, 255, 935, 460, 332, 897, 407, 680, 657, 857, 795, 706,
      320, 860, 706, 229, 43, 924, 824, 757, 837, 115, 612, 583, 434, 381, 488, 496,
      122, 374, 239, 855, 564, 129, 82, 134, 882, 847, 671, 510, 433, 643, 285, 606,
      1003, 673, 364, 130, 688, 724, 595, 929, 61, 161, 912, 7, 643, 514, 104, 532,
      745, 726, 230, 716, 813, 972, 467, 266, 680, 101, 251, 243, 913, 32, 122, 58,
      639, 485, 1002, 636, 17, 903, 209, 812, 425, 699, 290, 753, 506, 705, 313, 741,
      577, 178, 256, 102, 640, 495, 580, 524, 97, 41, 909, 696, 841, 783, 909, 294,
      420, 740, 430, 77, 666, 1012, 912, 11, 907, 960, 760, 705, 202, 206, 435, 306,
      832, 948, 223, 131, 903, 349, 857, 56, 286, 363, 44, 295, 582, 347, 544, 496,
      191, 858, 783, 596, 113, 797, 211, 843, 2, 51, 61, 616, 29, 313, 819, 287,
      8, 123, 828, 377, 257, 726, 572, 139, 670, 420, 794, 364, 556, 285, 248, 191,
      264, 116, 331, 26, 495, 773, 294, 620, 298, 73, 271, 839, 1011, 1001, 338, 595,
      966, 616, 293, 981, 569, 54, 814, 768, 122, 743, 426, 334, 554, 804, 1014, 344,
      574, 941, 597, 276, 983, 614, 969, 443, 761, 825, 514, 967, 616, 375, 27, 397,
      175, 965, 392, 972, 490, 545, 58, 858, 655, 113, 578, 841, 589, 741, 415, 25,
      849, 924, 672, 260, 115, 192, 156, 494, 790, 96, 594, 642, 521, 534, 163, 424,
      176, 708, 320, 36, 635, 529, 936, 344, 388, 899, 16, 458, 737, 700, 726, 5,
      837, 289, 977, 301, 576, 167, 525, 395, 932, 601, 591, 320, 822, 455, 619, 826,
      570, 731, 551, 799, 346, 891, 967, 965, 166, 476, 8, 369, 499, 147, 98, 428,
      366, 907, 198, 784, 745, 666, 71, 806, 301, 8, 431, 110, 1017, 774, 34, 523,
      474, 703, 778, 923, 322, 325, 410, 81, 764, 764, 931, 990, 611, 605, 423, 180,
      868, 287, 957, 477, 718, 17, 128, 185, 877, 266, 521, 232, 370, 741, 181, 846,
      593, 662, 627, 827, 93, 567, 813, 1007, 1003, 876, 909, 376, 40, 968, 719, 61,
      818, 520, 379, 425, 518, 503, 653, 736, 44, 148, 131, 68, 258, 932, 253, 857,
      738, 31, 890, 483, 2, 215, 453, 966, 210, 4, 122, 416, 623, 573, 1017, 988,
      538, 611, 37, 743, 1011, 788, 151, 254, 933, 786, 450, 735, 599, 163, 605, 539,
      918, 660, 256, 855, 719, 690, 351, 246, 589, 221, 940, 109, 927, 140, 277, 635,
      868, 662, 826, 628, 867, 410, 219, 130, 985, 931, 448, 217, 628, 602, 869, 565,
      14, 93, 689, 846, 121, 284, 807, 260, 61, 532, 394, 590, 745, 584, 760, 1001,
      156, 924, 688, 603, 164, 130, 637, 429, 878, 412, 329, 7, 467, 825, 898, 694,
      982, 963, 1023, 447, 32, 639, 930, 999, 779, 502, 408, 663, 536, 322, 1020, 717,
      68, 203, 193, 112, 181, 1020, 598, 684, 997, 627, 879, 654, 497, 342, 119, 939,
      705, 904, 564, 903, 792, 677, 609, 415, 690, 798, 564, 439, 68, 762, 556, 681,
      249, 100, 885, 126, 149, 548, 41, 740, 665, 307, 416, 168, 170, 498, 194, 78,
      237, 405, 982, 142, 300, 463, 437, 867, 408, 860, 363, 781, 299, 209, 273, 352,
      629, 48, 891, 212, 175, 644, 777, 134, 895, 629, 941, 701, 495, 668, 746, 738,
      441, 451, 903, 908, 436, 856, 789, 788, 981, 743, 894, 354, 89, 150, 222, 412,
      449, 204, 148, 667, 526, 615, 579, 988, 972, 882, 221, 767, 204, 123, 213, 827,
      390, 829, 920, 670, 587, 408, 891, 1021, 753, 220, 645, 976, 584, 206, 809, 628,
      374, 201, 501, 505, 922, 878, 662, 674, 296, 152, 469, 439, 680, 417, 239, 438,
      964, 455, 234, 345, 556, 171, 44, 370, 908, 84, 961, 481, 789, 546, 66, 760,
      756, 806, 159, 690, 822, 849, 535, 343, 99, 727, 1000, 479, 549, 46, 184, 674,
      581, 62, 548, 329, 32, 420, 565, 279, 932, 64, 564, 744, 370, 968, 378, 646,
      492, 465, 952, 991, 69, 979, 32, 334, 93, 111, 760, 587, 222, 461, 867, 433,
      953, 571, 719, 69, 859, 294, 297, 282, 349, 327, 510, 978, 438, 891, 440, 1020>>

\* the low bits of output number k (from 1) of the generator seeded with seed
Genrand(seed, k) == Mt19937[seed][k]

\* mutant: random_state is not passed on, the split draws from the global
\* generator
CheckRandomStateGlobal(random_state, global) == [seed |-> global, pos |-> 0]
\* check_random_state(random_state): an int seeds a fresh generator, the
\* process-global one is not used
CheckRandomState(random_state, global) == [seed |-> random_state, pos |-> 0]

\* the smallest 2^k - 1 that is >= max
RECURSIVE Mask(_)
Mask(max) == IF max = 0 THEN 0 ELSE 2 * Mask(max \div 2) + 1

\* random_interval(max): a number of 0..max; outputs are drawn and masked
\* until one is <= max, none is drawn when max = 0: [value, rng]
RECURSIVE RandomInterval(_, _)
RandomInterval(rng, max) ==
    LET Masked(value, drawn) ==
            IF value > max THEN RandomInterval(drawn, max)
            ELSE [value |-> value, rng |-> drawn]
    IN IF max = 0 THEN [value |-> 0, rng |-> rng]
       ELSE Masked(Genrand(rng.seed, rng.pos + 1) % (Mask(max) + 1),
                   [rng EXCEPT !.pos = @ + 1])

\* rng.shuffle(x), the steps i = hi down to lo (positions from 1): x[i] is
\* swapped with x[j], j drawn from the positions up to i; st is [x, rng].
\* The steps are taken by halves, the upper half evaluated before the lower
\* one begins (the generator only moves forward)
RECURSIVE Shuffle(_, _, _)
Shuffle(st, lo, hi) ==
    LET Swap(d) ==
            [x |-> [st.x EXCEPT ![hi] = st.x[d.value + 1],
                                ![d.value + 1] = st.x[hi]],
             rng |-> d.rng]
        Lower(upper) ==
            IF upper.rng.pos >= st.rng.pos
            THEN Shuffle(upper, lo, (lo + hi) \div 2)
            ELSE upper
    IN IF hi < lo THEN st
       ELSE IF lo = hi THEN Swap(RandomInterval(st.rng, hi - 1))
       ELSE Lower(Shuffle(st, (lo + hi) \div 2 + 1, hi))

\* rng.permutation(x) of a sequence x: a shuffled copy, [x, rng]
Permutation(x, rng) ==
    Shuffle([x |-> SubSeq(x, 1, Len(x)), rng |-> rng], 2, Len(x))

\* rng.choice(a, size, replace=False): the first size elements of a taken at
\* the positions rng.permutation(len(a)), [x, rng]
Choice(a, size, rng) ==
    LET Take(p) == [x |-> [k \in 1..size |-> a[p.x[k]]], rng |-> p.rng]
    IN Take(Permutation([i \in 1..Len(a) |-> i], rng))

(***************************************************************************)
(* sklearn.model_selection.train_test_split(df, test_size, stratify,       *)
(* random_state) as called by stratified_split.                            *)
(***************************************************************************)
\* num * n = q * den + r for 0 <= num < den, by doubling: [q, r]
RECURSIVE MulDiv(_, _, _)
MulDiv(num, n, den) ==
    IF n = 0 THEN [q |-> 0, r |-> 0]
    ELSE LET h == MulDiv(num, n \div 2, den)
             d == 2 * h.r + (IF n % 2 = 1 THEN num ELSE 0)
         IN [q |-> 2 * h.q + d \div den, r |-> d % den]

\* ceil(num * n / den), the float product rounding up past an exact integer
\* when `up` (as 0.07 * 100 = 7.000000000000001 does)
CeilMul(num, den, n, up) ==
    LET m == MulDiv(num, n, den)
    IN IF m.r = 0 THEN (IF up THEN m.q + 1 ELSE m.q) ELSE m.q + 1

\* the frames for which the double test_size * n_samples exceeds the exact
\* integer product, for the test sizes of RatioTriples: 0.15 / (0.7 + 0.15)
\* (frames of up to 600 rows) and 0.3 / (0.4 + 0.3) (up to 100 rows); 0.15,
\* 0.3 and 0.55 / (0.05 + 0.55) have none
FloatExcess(num, den, n) ==
    \/ /\ num = Pct(15) /\ den = Pct(85)
       /\ n \in {85, 170, 323, 340, 357}
    \/ /\ num = Pct(30) /\ den = Pct(70)
       /\ n \in {35, 63, 70}

\* class counts of the rows ids, per class of TagTypeOrder that occurs
ClassesOf(ids, rows) ==
    LET present == {i \in 1..Len(TagTypeOrder) :
                       \E k \in 1..Len(ids) : rows[ids[k]].type = TagTypeOrder[i]}
        RECURSIVE Sorted(_)
        Sorted(S) == IF S = {} THEN <<>>
                     ELSE LET m == CHOOSE x \in S : \A y \in S : x <= y
                          IN <<TagTypeOrder[m]>> \o Sorted(S \ {m})
    IN Sorted(present)

\* the loop of _approximate_mode over the remainder values, largest first:
\* the classes inds of that remainder are drawn from with rng.choice even
\* when all of them are added; st is [n, rng]
RECURSIVE AddRemainders(_, _, _, _)
AddRemainders(st, rem, pending, need) ==
    LET top == CHOOSE r \in {rem[i] : i \in pending} :
                   \A i \in pending : rem[i] <= r
        inds == SelectSeq([i \in 1..Len(rem) |-> i],
                          LAMBDA i : i \in pending /\ rem[i] = top)
        Add(add_now, chosen) ==
            AddRemainders([n |-> [i \in DOMAIN st.n |->
                                     IF i \in Range(chosen.x) THEN st.n[i] + 1
                                     ELSE st.n[i]],
                           rng |-> chosen.rng],
                          rem, pending \ Range(inds), need - add_now)
        Draw(add_now) == Add(add_now, Choice(inds, add_now, st.rng))
    IN IF need = 0 \/ pending = {} THEN st
       ELSE Draw(IF Len(inds) < need THEN Len(inds) ELSE need)

\* _approximate_mode(class_counts, n_draws, rng): the draws per class,
\* proportional to the counts, the remainder going to the classes with the
\* largest fractional parts, ties broken by the generator: [n, rng].  The
\* quotients are exact here; the doubles class_counts / sum * n_draws floor
\* and compare like them for one class, for two classes of up to 21 rows
\* together and for classes of equal counts
ApproximateMode(counts, n_draws, rng) ==
    LET total == SumSeq(counts)
        floored == [i \in 1..Len(counts) |-> (counts[i] * n_draws) \div total]
        rem == [i \in 1..Len(counts) |-> (counts[i] * n_draws) % total]
    IN AddRemainders([n |-> floored, rng |-> rng], rem, 1..Len(counts),
                     n_draws - SumSeq(floored))

\* the loop of _iter_indices over the classes from c on: the members of a
\* class are taken in the order rng.permutation(class_counts[c]), the first
\* n_i[c] for train, the next t_i[c] for test; st is [train, test, rng]
RECURSIVE TakeClasses(_, _, _, _, _)
TakeClasses(st, c, members, n_i, t_i) ==
    LET Extend(taken, rng) ==
            TakeClasses([train |-> st.train \o SubSeq(taken, 1, n_i[c]),
                         test |-> st.test \o SubSeq(taken, n_i[c] + 1,
                                                    n_i[c] + t_i[c]),
                         rng |-> rng],
                        c + 1, members, n_i, t_i)
        Take(p) ==
            Extend([k \in 1..Len(members[c]) |-> members[c][p.x[k]]], p.rng)
    IN IF c > Len(members) THEN st
       ELSE Take(Permutation([k \in 1..Len(members[c]) |-> k], st.rng))

\* the stratified shuffle split of the rows ids (a sequence, in frame order)
\* with test_size = num / den: [ok, train, test].  _iter_indices draws n_i
\* and t_i with _approximate_mode, takes the classes, then permutes train
\* and test, all from the one generator
TrainTestSplit(ids, rows, num, den, random_state, global) ==
    LET n == Len(ids)
        n_test == CeilMul(num, den, n, FloatExcess(num, den, n))
        n_train == n - n_test
        classes == ClassesOf(ids, rows)
        members == [c \in 1..Len(classes) |-> SelectIds(ids, rows, classes[c])]
        counts == [c \in 1..Len(classes) |-> Len(members[c])]
        failed == [ok |-> FALSE, train |-> <<>>, test |-> <<>>]
        PermuteTest(train, test) ==
            [ok |-> TRUE, train |-> train.x,
             test |-> Permutation(test, train.rng).x]
        PermuteTrain(taken) ==
            PermuteTest(Permutation(taken.train, taken.rng), taken.test)
        Take(n_i, t_i) ==
            PermuteTrain(TakeClasses([train |-> <<>>, test |-> <<>>,
                                      rng |-> t_i.rng],
                                     1, members, n_i.n, t_i.n))
        DrawTest(n_i) ==
            Take(n_i, ApproximateMode([c \in 1..Len(classes) |->
                                          counts[c] - n_i.n[c]],
                                      n_test, n_i.rng))
    IN IF ~(0 < num /\ num < den) \/ n = 0 THEN failed
       ELSE IF n_train <= 0 THEN failed
       ELSE IF \E c \in 1..Len(classes) : counts[c] < 2 THEN failed
       ELSE IF n_train < Len(classes) \/ n_test < Len(classes) THEN failed
       ELSE DrawTest(ApproximateMode(counts, n_train,
                                     CheckRandomState(random_state, global)))

(***************************************************************************)
(* DataPreprocessor.                                                       *)
(***************************************************************************)
\* df.dropna(subset=required_cols): the ids of the rows without a missing value
DropNa(rows, i) ==
    SelectSeq([k \in 1..(Len(rows) - i + 1) |-> k + i - 1],
              LAMBDA k : ~rows[k].null)

\* mutant: the required columns are not validated
LoadDataUnchecked(c) == [ok |-> TRUE, ids |-> DropNa(c.rows, 1)]
\* load_data: [ok, ids]; fails when a required column is missing; rows whose
\* image file is missing are only warned about
LoadData(c) ==
    IF RequiredCols \ c.columns # {}
    THEN [ok |-> FALSE, ids |-> <<>>]
    ELSE [ok |-> TRUE, ids |-> DropNa(c.rows, 1)]

\* mutant: the validation split is taken from the whole frame again
StratifiedSplitFromAll(ids, rows, a, global) ==
    LET failed == [ok |-> FALSE, train |-> <<>>, val |-> <<>>, test |-> <<>>]
        Second(first, second) ==
            IF ~second.ok THEN failed
            ELSE [ok |-> TRUE, train |-> second.train, val |-> second.test,
                  test |-> first.test]
        First(first) ==
            IF ~first.ok \/ a.train + a.val = 0 THEN failed
            ELSE Second(first,
                        TrainTestSplit(ids, rows, a.val, a.train + a.val,
                                       a.seed, global))
    IN First(TrainTestSplit(ids, rows, a.test, One, a.seed, global))
\* mutant: the validation share is taken as val_split of the remainder
StratifiedSplitValOfRemainder(ids, rows, a, global) ==
    LET failed == [ok |-> FALSE, train |-> <<>>, val |-> <<>>, test |-> <<>>]
        Second(first, second) ==
            IF ~second.ok THEN failed
            ELSE [ok |-> TRUE, train |-> second.train, val |-> second.test,
                  test |-> first.test]
        First(first) ==
            IF ~first.ok \/ a.train + a.val = 0 THEN failed
            ELSE Second(first,
                        TrainTestSplit(first.train, rows, a.val, One, a.seed,
                                       global))
    IN First(TrainTestSplit(ids, rows, a.test, One, a.seed, global))
\* stratified_split: test is split off first, then val, as the share
\* val_split / (train_split + val_split), off the remainder
StratifiedSplit(ids, rows, a, global) ==
    LET failed == [ok |-> FALSE, train |-> <<>>, val |-> <<>>, test |-> <<>>]
        Second(first, second) ==
            IF ~second.ok THEN failed
            ELSE [ok |-> TRUE, train |-> second.train, val |-> second.test,
                  test |-> first.test]
        First(first) ==
            IF ~first.ok \/ a.train + a.val = 0 THEN failed
            ELSE Second(first,
                        TrainTestSplit(first.train, rows, a.val,
                                       a.train + a.val, a.seed, global))
    IN First(TrainTestSplit(ids, rows, a.test, One, a.seed, global))

NoSplits == [train |-> <<>>, val |-> <<>>, test |-> <<>>]

\* self.metadata as __init__ leaves it
NoMetadata ==
    [source_types |-> <<>>, tag_types |-> <<>>, lat_mean |-> NoneVal,
     lat_std |-> NoneVal, lon_mean |-> NoneVal, lon_std |-> NoneVal,
     num_classes |-> NoneVal, class_weights |-> NoneVal]

\* sorted(df['source'].unique().tolist())
SourceTypes(ids, rows) ==
    LET present == {i \in 1..Len(SourceOrder) :
                       \E k \in 1..Len(ids) : rows[ids[k]].source = SourceOrder[i]}
        RECURSIVE Sorted(_)
        Sorted(S) == IF S = {} THEN <<>>
                     ELSE LET m == CHOOSE x \in S : \A y \in S : x <= y
                          IN <<SourceOrder[m]>> \o Sorted(S \ {m})
    IN Sorted(present)

\* StandardScaler.mean_ of a column, as the fraction <<sum, n>>
ScalerMean(xs) == <<SumSeq(xs), Len(xs)>>

\* StandardScaler.scale_ of a column: the square root of the fraction
\* returned, a zero variance being replaced by a scale of 1.0
ScalerScale(xs) ==
    LET n == Len(xs)
        sq == SumSeq([i \in 1..n |-> xs[i] * xs[i]])
        num == n * sq - SumSeq(xs) * SumSeq(xs)
    IN IF num = 0 THEN <<1, 1>> ELSE <<num, n * n>>

\* normalize_coordinates, encode_labels, encode_source and
\* compute_class_weights: the metadata of the frame ids; a class weight
\* total / (num_classes * count) is the fraction <<total, num_classes * count>>
ComputeMetadata(ids, rows) ==
    LET tag_types == ClassesOf(ids, rows)
        lats == [k \in 1..Len(ids) |-> rows[ids[k]].lat]
        lons == [k \in 1..Len(ids) |-> rows[ids[k]].lon]
    IN [source_types |-> SourceTypes(ids, rows),
        tag_types |-> tag_types,
        lat_mean |-> ScalerMean(lats), lat_std |-> ScalerScale(lats),
        lon_mean |-> ScalerMean(lons), lon_std |-> ScalerScale(lons),
        num_classes |-> Len(tag_types),
        class_weights |->
            [c \in 1..Len(tag_types) |->
                <<Len(ids),
                  Len(tag_types) * Len(SelectIds(ids, rows, tag_types[c]))>>]]

\* no earlier run
NoRun == [splits |-> NoSplits, metadata |-> NoMetadata]

OutputFiles == {"tags_train.csv", "tags_val.csv", "tags_test.csv",
                "preprocessing_metadata.json"}

PreInit ==
    /\ pre_pc = "new"
    /\ pre_args \in {[entry |-> e, train |-> r.train, val |-> r.val,
                      test |-> r.test, err |-> r.err, seed |-> sd] :
                        e \in {"cli", "api"}, r \in RatioTriples, sd \in Seeds}
    /\ csv \in Csvs
    /\ csv_read = FALSE
    /\ out_files = {}
    /\ splits = NoSplits
    /\ metadata = NoMetadata
    /\ first_run = NoRun

\* main()'s parser.error check and DataPreprocessor.__init__: both reject
\* ratios that np.isclose does not accept as summing to 1.0
Construct ==
    /\ pre_pc = "new"
    /\ pre_pc' = IF RatiosAccepted(pre_args) THEN "constructed" ELSE "rejected"
    /\ UNCHANGED <<pre_args, csv, csv_read, out_files, splits, metadata,
                   first_run>>

\* the body of DataPreprocessor.preprocess: load, normalise, encode, split,
\* save, in a process whose global generator is in state global
RunPreprocess(global) ==
    /\ csv_read' = TRUE
    /\ LET loaded == LoadData(csv)
           Save(split) ==
               IF ~split.ok
               THEN /\ pre_pc' = "failed_split"
                    /\ metadata' = ComputeMetadata(loaded.ids, csv.rows)
                    /\ UNCHANGED <<out_files, splits>>
               ELSE /\ pre_pc' = "done"
                    /\ metadata' = ComputeMetadata(loaded.ids, csv.rows)
                    /\ out_files' = out_files \cup OutputFiles
                    /\ splits' = [train |-> split.train, val |-> split.val,
                                  test |-> split.test]
       IN IF ~loaded.ok
          THEN /\ pre_pc' = "failed_columns"
               /\ UNCHANGED <<out_files, splits, metadata>>
          ELSE IF loaded.ids = <<>>
          THEN /\ pre_pc' = "failed_empty"
               /\ UNCHANGED <<out_files, splits, metadata>>
          ELSE Save(StratifiedSplit(loaded.ids, csv.rows, pre_args, global))
    /\ UNCHANGED <<pre_args, csv>>

\* DataPreprocessor.preprocess
Preprocess ==
    /\ pre_pc = "constructed"
    /\ \E global \in GlobalRngStates : RunPreprocess(global)
    /\ UNCHANGED first_run

\* a second run of preprocess with the same input CSV, seed and ratios
PreprocessAgain ==
    /\ pre_pc = "done"
    /\ first_run = NoRun
    /\ first_run' = [splits |-> splits, metadata |-> metadata]
    /\ \E global \in GlobalRngStates : RunPreprocess(global)

PreStep ==
    \/ Construct
    \/ Preprocess
    \/ PreprocessAgain

\* the preprocessor is not part of a training run
PreIdle ==
    /\ pre_pc = "idle"
    /\ pre_args = [entry |-> "api", train |-> Pct(70), val |-> Pct(15),
                   test |-> Pct(15), err |-> 0, seed |-> 42]
    /\ csv = [columns |-> RequiredCols, rows |-> <<>>]
    /\ csv_read = FALSE
    /\ out_files = {}
    /\ splits = NoSplits
    /\ metadata = NoMetadata
    /\ first_run = NoRun

\* no training run is part of a preprocessing run
TrainerIdle ==
    /\ config = [trainer |-> "Trainer", num_epochs |-> 1,
                 early_stopping_patience |-> 1, save_last |-> TRUE,
                 save_best_only |-> TRUE, grad_accumulation_steps |-> 1,
                 grad_clip |-> FALSE, use_amp |-> FALSE, scheduler |-> FALSE,
                 train_batches |-> 1, val_batches |-> 1]
    /\ pc = "idle"
    /\ epoch = -1
    /\ batch_idx = 0
    /\ current_epoch = 0
    /\ best_val_acc = 0
    /\ epochs_without_improvement = 0
    /\ val_acc = 0
    /\ is_best = FALSE
    /\ val_history = <<>>
    /\ model_state = 0
    /\ optimizer_state = 0
    /\ scheduler_state = 0
    /\ grad_pending = 0
    /\ ops = <<>>
    /\ files = <<>>
    /\ log_saved = FALSE
    /\ raised = 0

(***************************************************************************)
(* TagDataset (models/baseline/dataset.py).                                *)
(***************************************************************************)
\* largest number of rows of a split CSV
MaxDsRows == 2

\* config['tag_types'] and config['source_types']
DsTagTypeLists == {<<"Ramp", "Elevator">>, <<"Elevator">>}
DsSourceTypeLists == {<<"user", "osm", "model">>, <<"osm">>}

\* the values of the type and source columns, one of each not configured
DsTypes == {"Ramp", "Elevator", "Stairs"}
DsSources == {"user", "osm", "drone"}

\* the image of a row: its file opens, does not exist, is not an image, or
\* the image_path cell is empty (read_csv yields NaN)
ImageStates == {"ok", "missing", "corrupt", "nan"}

DsCsvs ==
    UNION {[1..n -> [type : DsTypes, source : DsSources, image : ImageStates]] :
              n \in 0..MaxDsRows}

\* df[df[col].isin(allowed)]
Isin(df, col, allowed) ==
    SelectSeq(df, LAMBDA row : \E i \in 1..Len(allowed) : row[col] = allowed[i])

\* {x: idx for idx, x in enumerate(list)}[key]: the last position of key,
\* counted from 0; NoneVal stands for KeyError
ToIdx(list, key) ==
    LET at == {i \in 1..Len(list) : list[i] = key}
    IN IF at = {} THEN NoneVal
       ELSE (CHOOSE i \in at : \A j \in at : j <= i) - 1

NoItem == [raised |-> "", image |-> "", label |-> NoneVal,
           source_onehot |-> <<>>]

Raised(e) == [raised |-> e, image |-> "", label |-> NoneVal,
              source_onehot |-> <<>>]

\* TagDataset.__getitem__(idx)
GetItemResult(df, a, idx) ==
    LET row == df[idx + 1]
        source_idx == ToIdx(a.source_types, row.source)
        label == ToIdx(a.tag_types, row.type)
    IN IF row.image = "nan" THEN Raised("TypeError")
       ELSE IF source_idx = NoneVal \/ label = NoneVal THEN Raised("KeyError")
       ELSE [raised |-> "none",
             image |-> IF row.image = "ok" THEN "loaded" ELSE "blank",
             label |-> label,
             source_onehot |-> [i \in 1..Len(a.source_types) |->
                                   IF i = source_idx + 1 THEN 1 ELSE 0]]

DatasetInit ==
    /\ ds_pc = "new"
    /\ ds_args \in [csv : DsCsvs, tag_types : DsTagTypeLists,
                     source_types : DsSourceTypeLists]
    /\ ds_df = <<>>
    /\ ds_idx = NoneVal
    /\ ds_item = NoItem

\* TagDataset.__init__
DatasetConstruct ==
    /\ ds_pc = "new"
    /\ ds_pc' = "ready"
    /\ ds_df' = Isin(Isin(ds_args.csv, "type", ds_args.tag_types),
                     "source", ds_args.source_types)
    /\ UNCHANGED <<ds_args, ds_idx, ds_item>>

\* dataset[idx] for an index in range(len(dataset))
GetItem ==
    /\ ds_pc = "ready"
    /\ \E idx \in 0..(Len(ds_df) - 1) :
          /\ ds_idx' = idx
          /\ ds_item' = GetItemResult(ds_df, ds_args, idx)
    /\ UNCHANGED <<ds_pc, ds_args, ds_df>>

DatasetStep ==
    \/ DatasetConstruct
    \/ GetItem

\* no dataset is part of the run
DatasetIdle ==
    /\ ds_pc = "idle"
    /\ ds_args = [csv |-> <<>>, tag_types |-> <<>>, source_types |-> <<>>]
    /\ ds_df = <<>>
    /\ ds_idx = NoneVal
    /\ ds_item = NoItem

(***************************************************************************)
(* ModelExporter.export_all (scripts/export_model.py).                     *)
(***************************************************************************)
\* the environment of an export: which optional libraries import, which
\* conversions succeed, and the quantize argument
ExportEnvs ==
    [onnx_installed : BOOLEAN, coreml_installed : BOOLEAN,
     onnx_export_ok : BOOLEAN, onnx_check_ok : BOOLEAN, trace_ok : BOOLEAN,
     coreml_convert_ok : BOOLEAN, quantize : BOOLEAN]

ExportInit ==
    /\ exp_pc = "export_onnx"
    /\ exp_env \in ExportEnvs
    /\ exp_files = {}
    /\ exp_log = <<>>

\* export_onnx: torch.onnx.export, then the verification, of which only the
\* ImportError is caught
ExportOnnx ==
    /\ exp_pc = "export_onnx"
    /\ LET file == IF exp_env.quantize THEN "model_quantized.onnx"
                   ELSE "model.onnx"
       IN IF ~exp_env.onnx_export_ok
          THEN /\ exp_pc' = "raised"
               /\ exp_log' = Append(exp_log, "onnx export raised")
               /\ UNCHANGED exp_files
          ELSE IF ~exp_env.onnx_installed
          THEN /\ exp_pc' = "export_torchscript"
               /\ exp_files' = exp_files \cup {file}
               /\ exp_log' = Append(exp_log, "ONNX not installed")
          ELSE IF ~exp_env.onnx_check_ok
          THEN /\ exp_pc' = "raised"
               /\ exp_files' = exp_files \cup {file}
               /\ exp_log' = Append(exp_log, "onnx check raised")
          ELSE /\ exp_pc' = "export_torchscript"
               /\ exp_files' = exp_files \cup {file}
               /\ exp_log' = Append(exp_log, "ONNX export successful")
    /\ UNCHANGED exp_env

\* export_torchscript (method = 'trace'): nothing is caught
ExportTorchscript ==
    /\ exp_pc = "export_torchscript"
    /\ IF ~exp_env.trace_ok
       THEN /\ exp_pc' = "raised"
            /\ exp_log' = Append(exp_log, "torchscript export raised")
            /\ UNCHANGED exp_files
       ELSE /\ exp_pc' = "export_coreml"
            /\ exp_files' = exp_files \cup {"model.pt"}
            /\ exp_log' = Append(exp_log, "TorchScript export successful")
    /\ UNCHANGED exp_env

\* mutant: export_all calls export_coreml outside a try
ExportCoremlUncaught ==
    /\ exp_pc = "export_coreml"
    /\ IF ~exp_env.coreml_installed
       THEN /\ exp_pc' = "benchmark"
            /\ exp_log' = Append(exp_log, "CoreMLTools not installed")
            /\ UNCHANGED exp_files
       ELSE IF ~exp_env.trace_ok \/ ~exp_env.coreml_convert_ok
       THEN /\ exp_pc' = "raised"
            /\ exp_log' = Append(exp_log, "coreml export raised")
            /\ UNCHANGED exp_files
       ELSE /\ exp_pc' = "benchmark"
            /\ exp_files' = exp_files \cup {"model.mlmodel"}
            /\ exp_log' = Append(exp_log, "CoreML export successful")
    /\ UNCHANGED exp_env
\* export_coreml inside export_all's try: the ImportError is caught by
\* export_coreml itself, every other exception by export_all
ExportCoreml ==
    /\ exp_pc = "export_coreml"
    /\ exp_pc' = "benchmark"
    /\ IF ~exp_env.coreml_installed
       THEN /\ exp_log' = Append(exp_log, "CoreMLTools not installed")
            /\ UNCHANGED exp_files
       ELSE IF ~exp_env.trace_ok \/ ~exp_env.coreml_convert_ok
       THEN /\ exp_log' = Append(exp_log, "CoreML export failed")
            /\ UNCHANGED exp_files
       ELSE /\ exp_files' = exp_files \cup {"model.mlmodel"}
            /\ exp_log' = Append(exp_log, "CoreML export successful")
    /\ UNCHANGED exp_env

\* benchmark_inference
BenchmarkInference ==
    /\ exp_pc = "benchmark"
    /\ exp_pc' = "save_metadata"
    /\ exp_log' = Append(exp_log, "benchmark")
    /\ UNCHANGED <<exp_env, exp_files>>

\* save_metadata
SaveMetadata ==
    /\ exp_pc = "save_metadata"
    /\ exp_pc' = "done"
    /\ exp_files' = exp_files \cup {"export_metadata.json"}
    /\ exp_log' = Append(exp_log, "Saved metadata")
    /\ UNCHANGED exp_env

ExportAll ==
    \/ ExportOnnx
    \/ ExportTorchscript
    \/ ExportCoreml
    \/ BenchmarkInference
    \/ SaveMetadata

\* no export is part of the run
ExportIdle ==
    /\ exp_pc = "idle"
    /\ exp_env = [onnx_installed |-> TRUE, coreml_installed |-> TRUE,
                  onnx_export_ok |-> TRUE, onnx_check_ok |-> TRUE,
                  trace_ok |-> TRUE, coreml_convert_ok |-> TRUE,
                  quantize |-> FALSE]
    /\ exp_files = {}
    /\ exp_log = <<>>

(***************************************************************************)
(* Tags API (backend/schemas.py, backend/crud.py, backend/tags_api.py,     *)
(* backend/main.py).  None is NoneVal; a confidence is in hundredths; an   *)
(* osm_id is the number of the OSM node; a coordinate is a whole number of  *)
(* degrees and a radius a whole number of kilometres; no coordinate used   *)
(* is -1, which stands for a coordinate that is missing.                   *)
(***************************************************************************)
\* largest id the table hands out
MaxIds == 2

\* schemas.TagSource
TagSources == {"user", "osm", "model"}

\* schemas.TagType
SchemaTagTypes ==
    {"Ramp", "Elevator", "Entrance", "Tactile Path", "Obstacle", "Parking",
     "Restroom"}

\* Field(ge=-90, le=90), Field(ge=-180, le=180)
MaxLat == 90
MaxLon == 180

\* degree_radius = radius_km / 111.0
KmPerDegree == 111

\* the tags a client may send: every combination of source, confidence and
\* osm_id for a Ramp, a Tactile Path, and four tags with an unknown type, an
\* unknown source, a confidence above 1 and a latitude of 91 degrees; every
\* other tag lies at the same point
RawTags ==
    [type : {"Ramp"}, source : TagSources, confidence : {NoneVal, 92},
     osm_id : {NoneVal, 123456}, lat : {1}, lon : {1}]
    \cup {[type |-> "Tactile Path", source |-> "user", confidence |-> NoneVal,
           osm_id |-> NoneVal, lat |-> 1, lon |-> 1],
          [type |-> "Stairs", source |-> "user", confidence |-> NoneVal,
           osm_id |-> NoneVal, lat |-> 1, lon |-> 1],
          [type |-> "Ramp", source |-> "drone", confidence |-> NoneVal,
           osm_id |-> NoneVal, lat |-> 1, lon |-> 1],
          [type |-> "Ramp", source |-> "model", confidence |-> 150,
           osm_id |-> NoneVal, lat |-> 1, lon |-> 1],
          [type |-> "Ramp", source |-> "user", confidence |-> NoneVal,
           osm_id |-> NoneVal, lat |-> 91, lon |-> 1]}

\* the centres a store request may give (lat, lon): a valid one, one without
\* lat, one with a latitude of 91 degrees
StoreCentres == {<<1, 1>>, <<NoneVal, 1>>, <<91, 1>>}

\* the tags lists a client may send: no tag, one tag, two tags
TagLists ==
    {<<>>} \cup {<<t>> : t \in RawTags} \cup {<<t, u>> : t, u \in RawTags}

NoRequest == [kind |-> "none", location_name |-> "", tags |-> <<>>,
              tag_id |-> NoneVal, gps |-> FALSE, radius_km |-> NoneVal,
              lat |-> NoneVal, lon |-> NoneVal]

NoResponse == [status |-> 0, handler |-> FALSE, tag_ids |-> <<>>,
               body |-> <<>>]

\* mutant: confidence is accepted for every source
ValidateConfidenceAny(t) == TRUE
\* TagCreate.validate_confidence
ValidateConfidence(t) == t.confidence # NoneVal => t.source = "model"

\* TagCreate.validate_osm_id
ValidateOsmId(t) == t.osm_id # NoneVal => t.source = "osm"

\* Field(..., ge=-bound, le=bound): required and within the range
InRange(x, bound) == x # NoneVal /\ -bound <= x /\ x <= bound

\* TagCreate: the field constraints and the two validators
ValidTag(t) ==
    /\ t.type \in SchemaTagTypes
    /\ InRange(t.lat, MaxLat)
    /\ InRange(t.lon, MaxLon)
    /\ t.source \in TagSources
    /\ t.confidence # NoneVal => (0 <= t.confidence /\ t.confidence <= 100)
    /\ ValidateConfidence(t)
    /\ ValidateOsmId(t)

\* mutant: the tags list has no minimum length
TagsMinLengthNone(tags) == TRUE
\* TagsRequest.tags: Field(..., min_length=1)
TagsMinLength(tags) == Len(tags) >= 1

\* TagsRequest: what FastAPI validates before it calls the handler
ValidRequest(r) ==
    /\ r.location_name # ""
    /\ InRange(r.lat, MaxLat)
    /\ InRange(r.lon, MaxLon)
    /\ TagsMinLength(r.tags)
    /\ \A i \in 1..Len(r.tags) : ValidTag(r.tags[i])

\* what the database does with a create_tags call: all goes well, an insert
\* or the commit fails, or the commit succeeds and a refresh fails
DbOutcomes == {"ok", "commit_fails", "refresh_fails"}

\* the ids of the rows of a table
Ids(rows) == {rows[i].id : i \in 1..Len(rows)}

\* id INTEGER PRIMARY KEY of the default SQLite database (database.py): a new
\* row gets the largest id in use plus one, 1 in an empty table
NextRowId(rows) ==
    IF rows = <<>> THEN 1
    ELSE 1 + CHOOSE m \in Ids(rows) : \A n \in Ids(rows) : n <= m

\* created_at of the newest row, 0 in an empty table
Newest(rows) ==
    IF rows = <<>> THEN 0
    ELSE CHOOSE t \in {rows[i].created_at : i \in 1..Len(rows)} :
            \A i \in 1..Len(rows) : rows[i].created_at <= t
\* server_default=func.now(): CURRENT_TIMESTAMP of SQLite, which counts
\* whole seconds.  A commit falls in the second of the newest row or in a
\* later one, counted as the next; the seconds of an empty table count from
\* its first commit.
Seconds(rows) ==
    IF rows = <<>> THEN {0} ELSE {Newest(rows), Newest(rows) + 1}

\* the rows create_tags adds for the tags of request r in the second now:
\* the rows of one commit have the same created_at
NewRows(r, first_id, now) ==
    [i \in 1..Len(r.tags) |->
        [id |-> first_id + i - 1, location_name |-> r.location_name,
         lat |-> r.tags[i].lat, lon |-> r.tags[i].lon,
         tag_type |-> r.tags[i].type, source |-> r.tags[i].source,
         confidence |-> r.tags[i].confidence, osm_id |-> r.tags[i].osm_id,
         created_at |-> now]]

ApiInit ==
    /\ db_tags = <<>>
    /\ next_id = 1
    /\ api_request = NoRequest
    /\ api_response = NoResponse

\* POST /api/tags/store: request validation, then store_tags and create_tags
StoreTags ==
    /\ api_request = NoRequest
    /\ \E name \in {"", "Clemson University"}, tags \in TagLists,
          centre \in StoreCentres, now \in Seconds(db_tags) :
        LET r == [NoRequest EXCEPT !.kind = "store",
                                   !.location_name = name, !.tags = tags,
                                   !.lat = centre[1], !.lon = centre[2]]
            rows == NewRows(r, next_id, now)
        IN /\ api_request' = r
           /\ IF ~ValidRequest(r)
              THEN /\ api_response' = [status |-> 422, handler |-> FALSE,
                                       tag_ids |-> <<>>, body |-> <<>>]
                   /\ UNCHANGED <<db_tags, next_id>>
              ELSE IF r.tags = <<>>
              THEN /\ api_response' = [status |-> 400, handler |-> TRUE,
                                       tag_ids |-> <<>>, body |-> <<>>]
                   /\ UNCHANGED <<db_tags, next_id>>
              ELSE /\ next_id + Len(tags) - 1 <= MaxIds
                   /\ \E outcome \in DbOutcomes :
                        IF outcome = "commit_fails"
                        THEN /\ api_response' =
                                   [status |-> 500, handler |-> TRUE,
                                    tag_ids |-> <<>>, body |-> <<>>]
                             /\ UNCHANGED <<db_tags, next_id>>
                        ELSE /\ db_tags' = db_tags \o rows
                             /\ next_id' = NextRowId(db_tags')
                             /\ api_response' =
                                   IF outcome = "ok"
                                   THEN [status |-> 201, handler |-> TRUE,
                                         tag_ids |-> [i \in 1..Len(rows) |->
                                                        rows[i].id],
                                         body |-> <<>>]
                                   ELSE [status |-> 500, handler |-> TRUE,
                                         tag_ids |-> <<>>, body |-> <<>>]

\* mutant: the delete takes the later rows with it
DeleteRowAndLater(rows, tag_id) == SelectSeq(rows, LAMBDA row : row.id < tag_id)
\* crud.delete_tag: db.delete(tag) of the row with this id, db.commit()
DeleteRow(rows, tag_id) == SelectSeq(rows, LAMBDA row : row.id # tag_id)

\* what the database does with a delete_tag call: all goes well, the query
\* raises, or the commit of the delete raises
DeleteOutcomes == {"ok", "query_fails", "commit_fails"}

\* DELETE /api/tags/tag/{tag_id}: delete_tag_by_id and crud.delete_tag.  An
\* exception of the query or of the commit is rolled back and raised again,
\* and the handler answers 500: the row, if there is one, is kept
DeleteTag ==
    /\ api_request = NoRequest
    /\ \E tag_id \in 1..MaxIds, outcome \in DeleteOutcomes :
        /\ api_request' = [NoRequest EXCEPT !.kind = "delete",
                                            !.tag_id = tag_id]
        /\ IF outcome = "query_fails"
              \/ (outcome = "commit_fails" /\ tag_id \in Ids(db_tags))
           THEN /\ UNCHANGED db_tags
                /\ api_response' = [status |-> 500, handler |-> TRUE,
                                    tag_ids |-> <<>>, body |-> <<>>]
           ELSE IF tag_id \in Ids(db_tags)
           THEN /\ db_tags' = DeleteRow(db_tags, tag_id)
                /\ api_response' = [status |-> 204, handler |-> TRUE,
                                    tag_ids |-> <<>>, body |-> <<>>]
           ELSE /\ UNCHANGED db_tags
                /\ api_response' = [status |-> 404, handler |-> TRUE,
                                    tag_ids |-> <<>>, body |-> <<>>]
        /\ next_id' = NextRowId(db_tags')

\* Python truth of an optional number: None and 0 are false
Truthy(x) == x # NoneVal /\ x # 0

\* sqlalchemy between(): both ends included
Between(x, lo, hi) == lo <= x /\ x <= hi

\* the place of row r before row s in the result of the query: the later
\* created_at first; rows of the same second come in the order of their
\* ids, the order in which SQLite reads them
Before(r, s) ==
    \/ r.created_at > s.created_at
    \/ r.created_at = s.created_at /\ r.id < s.id

\* order_by(created_at.desc())
Latest(rows) ==
    [k \in 1..Len(rows) |->
        rows[CHOOSE i \in 1..Len(rows) :
                Cardinality({j \in 1..Len(rows) : Before(rows[j], rows[i])})
                    = k - 1]]

\* crud.get_tags_by_location up to all_tags: the proximity filter when
\* radius_km, lat and lon are all true, the location_name filter otherwise.
\* The bounds lat -+ radius_km / 111.0 are doubles; against a whole number
\* of degrees they compare as the exact quotients do, their distance from a
\* whole number being 0 or at least 1/111, so both sides are taken times 111
AllTags(rows, location_name, radius_km, lat, lon) ==
    Latest(IF Truthy(radius_km) /\ Truthy(lat) /\ Truthy(lon)
           THEN SelectSeq(rows, LAMBDA row :
                    /\ Between(KmPerDegree * row.lat,
                               KmPerDegree * lat - radius_km,
                               KmPerDegree * lat + radius_km)
                    /\ Between(KmPerDegree * row.lon,
                               KmPerDegree * lon - radius_km,
                               KmPerDegree * lon + radius_km))
           ELSE SelectSeq(rows, LAMBDA row :
                    row.location_name = location_name))

\* crud.get_tags_by_location: all_tags grouped by source
GetTagsByLocation(rows, location_name, radius_km, lat, lon) ==
    [src \in TagSources |->
        SelectSeq(AllTags(rows, location_name, radius_km, lat, lon),
                  LAMBDA row : row.source = src)]

\* what a client may give for radius_km, and for lat and lon: the tags lie
\* one degree, 111 km, from the centre 2 and two degrees from the centre 3
Radii == {NoneVal, 0, 2, 111}
Centres == {NoneVal, 0, 2, 3}

\* what the database does with the queries of a read: they return, or one
\* raises
QueryOutcomes == {"ok", "query_fails"}

\* GET /api/tags/location/{location_name}: get_tags_for_location; an
\* exception of the query is answered 500
GetTags ==
    /\ api_request = NoRequest
    /\ \E name \in {"Clemson University", "Death Valley"},
          radius_km \in Radii, lat \in Centres, lon \in Centres,
          outcome \in QueryOutcomes :
        LET grouped == GetTagsByLocation(db_tags, name, radius_km, lat, lon)
            all_tags == grouped["user"] \o grouped["osm"] \o grouped["model"]
            first_tag == ~Truthy(lat) \/ ~Truthy(lon)
        IN /\ api_request' = [NoRequest EXCEPT !.kind = "get",
                                 !.location_name = name,
                                 !.radius_km = radius_km,
                                 !.lat = lat, !.lon = lon]
           /\ api_response' =
                 IF outcome = "query_fails"
                 THEN [status |-> 500, handler |-> TRUE, tag_ids |-> <<>>,
                       body |-> <<>>]
                 ELSE
                 [status |-> 200, handler |-> TRUE, tag_ids |-> <<>>,
                  body |-> [location_name |-> name,
                            lat |-> IF ~first_tag THEN lat
                                    ELSE IF all_tags # <<>>
                                    THEN all_tags[1].lat ELSE 0,
                            lon |-> IF ~first_tag THEN lon
                                    ELSE IF all_tags # <<>>
                                    THEN all_tags[1].lon ELSE 0,
                            total_tags |-> Len(grouped["user"])
                                           + Len(grouped["osm"])
                                           + Len(grouped["model"]),
                            tags |-> grouped]]
    /\ UNCHANGED <<db_tags, next_id>>

\* the number of rows that satisfy a condition
CountRows(rows, Cond(_)) == Len(SelectSeq(rows, Cond))

\* crud.get_all_locations: one entry per (location_name, lat, lon)
GetAllLocations(rows) ==
    {[location_name |-> rows[i].location_name, lat |-> rows[i].lat,
      lon |-> rows[i].lon,
      tag_count |-> CountRows(rows, LAMBDA row :
                        /\ row.location_name = rows[i].location_name
                        /\ row.lat = rows[i].lat
                        /\ row.lon = rows[i].lon)] : i \in 1..Len(rows)}

\* GET /api/tags/locations: list_locations; an exception of the query is
\* answered 500
ListLocations ==
    /\ api_request = NoRequest
    /\ api_request' = [NoRequest EXCEPT !.kind = "locations"]
    /\ \E outcome \in QueryOutcomes :
          api_response' =
             IF outcome = "query_fails"
             THEN [status |-> 500, handler |-> TRUE, tag_ids |-> <<>>,
                   body |-> <<>>]
             ELSE [status |-> 200, handler |-> TRUE, tag_ids |-> <<>>,
                   body |-> GetAllLocations(db_tags)]
    /\ UNCHANGED <<db_tags, next_id>>

\* crud.get_tag_statistics: the total and the counts of the sources and the
\* types that occur
GetTagStatistics(rows) ==
    [total_tags |-> Len(rows),
     by_source |-> [src \in {rows[i].source : i \in 1..Len(rows)} |->
                      CountRows(rows, LAMBDA row : row.source = src)],
     by_type |-> [type \in {rows[i].tag_type : i \in 1..Len(rows)} |->
                    CountRows(rows, LAMBDA row : row.tag_type = type)]]

\* GET /api/tags/statistics: get_statistics; an exception of a query is
\* answered 500
GetStatistics ==
    /\ api_request = NoRequest
    /\ api_request' = [NoRequest EXCEPT !.kind = "statistics"]
    /\ \E outcome \in QueryOutcomes :
          api_response' =
             IF outcome = "query_fails"
             THEN [status |-> 500, handler |-> TRUE, tag_ids |-> <<>>,
                   body |-> <<>>]
             ELSE [status |-> 200, handler |-> TRUE, tag_ids |-> <<>>,
                   body |-> GetTagStatistics(db_tags)]
    /\ UNCHANGED <<db_tags, next_id>>

\* the response has gone out; the server takes the next request
SendResponse ==
    /\ api_request # NoRequest
    /\ api_request' = NoRequest
    /\ api_response' = NoResponse
    /\ UNCHANGED <<db_tags, next_id>>

ApiStep ==
    \/ StoreTags
    \/ DeleteTag
    \/ GetTags
    \/ ListLocations
    \/ GetStatistics
    \/ SendResponse

\* the backend is not part of the run
ApiIdle ==
    /\ db_tags = <<>>
    /\ next_id = 0
    /\ api_request = NoRequest
    /\ api_response = NoResponse

(***************************************************************************)
(* Detection endpoints (backend/main.py): the ML stack set up at import,   *)
(* GET /health, POST /detect, POST /detect/batch, POST /model/switch.      *)
(***************************************************************************)
NoModel == "none"

NoMlRequest == [kind |-> "none", file |-> "none", gps |-> FALSE, boxes |-> 0,
                raises |-> FALSE, model_name |-> "", limit |-> 0,
                dataset_dir |-> FALSE, images |-> <<>>]

\* model_runs: the images the request has run through the model; model: the
\* model it has called
NoMlResponse == [status |-> 0, body |-> <<>>, model_runs |-> {},
                 model |-> NoModel]

\* the import block of main.py: the libraries import and the model file is
\* found and loads, or one of these fails and the except clauses clear
\* _HAS_FULL_STACK and model
Startups == {"loaded", "import_error", "no_model_file", "load_error"}

MlInit ==
    /\ \E startup \in Startups :
        /\ has_full_stack = (startup = "loaded")
        /\ yolo_model = IF startup = "loaded" THEN "yolov5su" ELSE NoModel
    /\ detect_reading = FALSE
    /\ ml_request = NoMlRequest
    /\ ml_response = NoMlResponse

\* mutant: the stack is reported full whatever was loaded
StackFull(stack, model) == "full"
\* health_check: "full" if _HAS_FULL_STACK and model is not None else "mock"
Stack(stack, model) == IF stack /\ model # NoModel THEN "full" ELSE "mock"

\* GET /health
HealthCheck ==
    /\ ml_request = NoMlRequest
    /\ ml_request' = [NoMlRequest EXCEPT !.kind = "health"]
    /\ ml_response' = [NoMlResponse EXCEPT
                          !.status = 200,
                          !.body = [stack |-> Stack(has_full_stack, yolo_model),
                                    model_loaded |-> yolo_model # NoModel]]
    /\ UNCHANGED <<has_full_stack, yolo_model, detect_reading, apiVars>>

\* the n detections of an image: label, confidence in hundredths, position
Detections(n) ==
    [i \in 1..n |-> [label |-> "person", confidence |-> 92,
                     position |-> "in the center"]]

\* the mock response of /detect
MockDetections ==
    <<[label |-> "person", confidence |-> 92, position |-> "in the center"],
      [label |-> "bottle", confidence |-> 76, position |-> "on the right"]>>

\* the auto-save of /detect and of /detect/batch: "from crud import
\* create_tag" raises ImportError, crud.py defines create_tags only; the
\* except clause around the block logs it, and no row is added
AutoSave(rows, detections) == rows

\* the tags the auto-save counts as saved: the count is not reached
TagsSaved(detections) == 0

\* the file names of an upload, by their extension
Extensions == {"ok", "bad_extension"}

\* what await file.read() gives: an image, more than MAX_FILE_SIZE bytes, no
\* byte, bytes that do not open as an image
Uploads == {"ok", "too_large", "empty", "corrupt"}

\* POST /detect up to "contents = await file.read()": the checks of the
\* file name; at the await the handler is suspended and the event loop may
\* run other handlers.  One /detect at a time is followed through the await.
DetectUpload ==
    /\ ml_request = NoMlRequest
    /\ ~detect_reading
    /\ \E extension \in Extensions :
        IF extension = "bad_extension"
        THEN /\ ml_request' = [NoMlRequest EXCEPT !.kind = "detect",
                                                  !.file = extension]
             /\ ml_response' = [NoMlResponse EXCEPT !.status = 422]
             /\ UNCHANGED detect_reading
        ELSE /\ detect_reading' = TRUE
             /\ UNCHANGED <<ml_request, ml_response>>
    /\ UNCHANGED <<has_full_stack, yolo_model, apiVars>>

\* POST /detect from the return of file.read() on: the size checks, then the
\* real or the mock path by _HAS_FULL_STACK and model as they are by now
DetectInfer ==
    /\ ml_request = NoMlRequest
    /\ detect_reading
    /\ detect_reading' = FALSE
    /\ \E file \in Uploads, gps \in BOOLEAN, boxes \in {0, 1, 2},
          raises \in BOOLEAN :
        /\ ml_request' = [NoMlRequest EXCEPT !.kind = "detect", !.file = file,
                             !.gps = gps, !.boxes = boxes, !.raises = raises]
        /\ IF file \in {"too_large", "empty"}
           THEN /\ ml_response' = [NoMlResponse EXCEPT !.status = 422]
                /\ UNCHANGED db_tags
           ELSE IF ~(has_full_stack /\ yolo_model # NoModel)
           THEN /\ ml_response' =
                      [NoMlResponse EXCEPT
                          !.status = 200,
                          !.body = [detections |-> MockDetections,
                                    mode |-> "mock", gps |-> FALSE]]
                /\ UNCHANGED db_tags
           ELSE IF file = "corrupt"
           THEN /\ ml_response' = [NoMlResponse EXCEPT !.status = 422]
                /\ UNCHANGED db_tags
           ELSE IF raises
           THEN /\ ml_response' = [NoMlResponse EXCEPT !.status = 500,
                                                      !.model_runs = {1},
                                                      !.model = yolo_model]
                /\ UNCHANGED db_tags
           ELSE /\ ml_response' =
                      [NoMlResponse EXCEPT
                          !.status = 200,
                          !.body = [detections |-> Detections(boxes),
                                    mode |-> "none", gps |-> gps],
                          !.model_runs = {1},
                          !.model = yolo_model]
                /\ db_tags' = IF boxes >= 1 /\ gps
                              THEN AutoSave(db_tags, Detections(boxes))
                              ELSE db_tags
    /\ UNCHANGED <<has_full_stack, yolo_model, next_id, api_request,
                   api_response>>

\* POST /detect
Detect == DetectUpload \/ DetectInfer

\* POST /model/switch
SwitchModel ==
    /\ ml_request = NoMlRequest
    /\ \E model_name \in {"", "yolov5s", "yolov5x"}, loads \in BOOLEAN :
        /\ ml_request' = [NoMlRequest EXCEPT !.kind = "switch",
                                             !.model_name = model_name]
        /\ IF model_name = ""
           THEN /\ ml_response' = [NoMlResponse EXCEPT !.status = 400]
                /\ UNCHANGED yolo_model
           ELSE IF ~has_full_stack
           THEN /\ ml_response' = [NoMlResponse EXCEPT !.status = 501]
                /\ UNCHANGED yolo_model
           ELSE IF ~loads
           THEN /\ ml_response' = [NoMlResponse EXCEPT !.status = 500]
                /\ UNCHANGED yolo_model
           ELSE /\ ml_response' = [NoMlResponse EXCEPT !.status = 200]
                /\ yolo_model' = model_name
    /\ UNCHANGED <<has_full_stack, detect_reading, apiVars>>

\* the images of the dataset directory: the file cannot be read; it has no
\* GPS data; it has GPS data and cannot be opened as an image; the model
\* raises on it; the model finds no box, one box, two boxes
ImageKinds == {"unreadable", "no_gps", "corrupt", "raises", "no_boxes",
               "one_box", "two_boxes"}

Datasets ==
    {<<>>} \cup {<<a>> : a \in ImageKinds}
    \cup {<<a, b>> : a, b \in ImageKinds}
    \cup {<<a, b, c>> : a, b, c \in {"no_gps", "corrupt", "no_boxes",
                                      "two_boxes"}}

\* len(boxes) of an image the model has processed
Boxes(kind) == IF kind = "one_box" THEN 1 ELSE IF kind = "two_boxes" THEN 2
               ELSE 0

\* mutant: an image without GPS data counts as processed as well
BatchImageCountsTwice(sum, kind, i) ==
    IF kind = "no_gps"
    THEN [sum EXCEPT !.skipped_count = @ + 1, !.processed_count = @ + 1]
    ELSE sum
\* detect_batch: one pass of the loop over images_to_process
BatchImage(sum, kind, i) ==
    IF kind = "unreadable"
    THEN [sum EXCEPT !.error_count = @ + 1]
    ELSE IF kind = "no_gps"
    THEN [sum EXCEPT !.skipped_count = @ + 1]
    ELSE IF kind = "corrupt"
    THEN [sum EXCEPT !.error_count = @ + 1]
    ELSE IF kind = "raises"
    THEN [sum EXCEPT !.error_count = @ + 1,
                     !.model_runs = @ \cup {i}]
    ELSE IF Boxes(kind) = 0
    THEN [sum EXCEPT !.processed_count = @ + 1,
                     !.model_runs = @ \cup {i}]
    ELSE [sum EXCEPT
             !.processed_count = @ + 1,
             !.model_runs = @ \cup {i},
             !.total_tags_saved = @ + TagsSaved(Detections(Boxes(kind))),
             !.results = Append(@,
                 [filename |-> i, detections |-> Detections(Boxes(kind)),
                  tags_saved |-> TagsSaved(Detections(Boxes(kind)))])]

\* detect_batch: the loop over images_to_process, from image i on
RECURSIVE BatchLoop(_, _, _)
BatchLoop(sum, images, i) ==
    IF i > Len(images) THEN sum
    ELSE BatchLoop(BatchImage(sum, images[i], i), images, i + 1)

\* POST /detect/batch
DetectBatch ==
    /\ ml_request = NoMlRequest
    /\ \E limit \in {0, 1, 2, 101}, dataset_dir \in BOOLEAN,
          images \in Datasets :
        LET images_to_process ==
                SubSeq(images, 1, IF limit < Len(images) THEN limit
                                  ELSE Len(images))
            sum == BatchLoop([processed_count |-> 0, skipped_count |-> 0,
                              error_count |-> 0, total_tags_saved |-> 0,
                              results |-> <<>>, model_runs |-> {}],
                             images_to_process, 1)
        IN /\ dataset_dir \/ images = <<>>
           /\ ml_request' = [NoMlRequest EXCEPT !.kind = "batch",
                                !.limit = limit, !.dataset_dir = dataset_dir,
                                !.images = images]
           /\ IF limit < 1 \/ limit > 100
              THEN ml_response' = [NoMlResponse EXCEPT !.status = 422]
              ELSE IF ~has_full_stack \/ yolo_model = NoModel
              THEN ml_response' = [NoMlResponse EXCEPT !.status = 503]
              ELSE IF ~dataset_dir \/ images = <<>>
              THEN ml_response' = [NoMlResponse EXCEPT !.status = 404]
              ELSE ml_response' =
                      [status |-> 200,
                       model |-> IF sum.model_runs = {} THEN NoModel
                                 ELSE yolo_model,
                       body |-> [total_images_found |-> Len(images),
                                 images_processed |-> sum.processed_count,
                                 images_skipped |-> sum.skipped_count,
                                 errors |-> sum.error_count,
                                 total_tags_saved |-> sum.total_tags_saved,
                                 results |-> sum.results],
                       model_runs |-> sum.model_runs]
    /\ UNCHANGED <<has_full_stack, yolo_model, detect_reading, apiVars>>

\* the response has gone out; the server takes the next request
MlSendResponse ==
    /\ ml_request # NoMlRequest
    /\ ml_request' = NoMlRequest
    /\ ml_response' = NoMlResponse
    /\ UNCHANGED <<has_full_stack, yolo_model, detect_reading, apiVars>>

MlStep ==
    \/ HealthCheck
    \/ Detect
    \/ DetectBatch
    \/ SwitchModel
    \/ MlSendResponse

\* the detection endpoints are not part of the run
MlIdle ==
    /\ has_full_stack = FALSE
    /\ yolo_model = NoModel
    /\ detect_reading = FALSE
    /\ ml_request = NoMlRequest
    /\ ml_response = NoMlResponse

(***************************************************************************)
(* fetch_osm_features (scripts/fetch_osm_tags.py): the retry loop around   *)
(* the request to the Overpass API.                                        *)
(***************************************************************************)
\* largest retry_count a caller passes
MaxRetries == 3

\* what a request meets: a response with elements, HTTP 429, a timeout, a
\* request error (a connection error, an HTTP error status), another
\* exception
Failures == {"rate_limited", "timeout", "request_error", "error"}

\* the elements of a successful response
ElementLists == {<<>>, <<"node/1">>, <<"node/1", "way/2">>}

OsmInit ==
    /\ osm_pc = "loop"
    /\ retry_count \in 0..MaxRetries
    /\ attempt = 0
    /\ osm_trace = <<>>
    /\ osm_result = <<>>

\* the sleep after a failed request: 60 seconds after HTTP 429, 5 seconds
\* after an exception unless the attempt was the last one
Sleeps(failure, last) ==
    IF failure = "rate_limited" THEN <<"sleep">>
    ELSE IF ~last THEN <<"sleep">>
    ELSE <<>>

\* one pass of "for attempt in range(retry_count)": the request succeeds
\* and its elements are returned
FetchSucceeds ==
    /\ osm_pc = "loop"
    /\ attempt < retry_count
    /\ \E elements \in ElementLists :
        /\ osm_trace' = Append(osm_trace, "ok")
        /\ osm_result' = elements
    /\ osm_pc' = "returned"
    /\ UNCHANGED <<retry_count, attempt>>

\* one pass of the loop: the request fails
FetchFails ==
    /\ osm_pc = "loop"
    /\ attempt < retry_count
    /\ \E failure \in Failures :
        osm_trace' = Append(osm_trace, failure)
                     \o Sleeps(failure, attempt = retry_count - 1)
    /\ attempt' = attempt + 1
    /\ UNCHANGED <<osm_pc, retry_count, osm_result>>

\* the loop is exhausted: return []
FetchGivesUp ==
    /\ osm_pc = "loop"
    /\ attempt >= retry_count
    /\ osm_result' = <<>>
    /\ osm_pc' = "returned"
    /\ UNCHANGED <<retry_count, attempt, osm_trace>>

OsmStep ==
    \/ FetchSucceeds
    \/ FetchFails
    \/ FetchGivesUp

\* fetch_osm_features is not part of the run
OsmIdle ==
    /\ osm_pc = "returned"
    /\ retry_count = 0
    /\ attempt = 0
    /\ osm_trace = <<>>
    /\ osm_result = <<>>

(***************************************************************************)
(* GET /voice (backend/main.py).  A text is its length and whether it      *)
(* consists of whitespace only.                                            *)
(***************************************************************************)
\* Query(..., min_length=1, max_length=500)
MinTextLen == 1
MaxTextLen == 500

\* number of file names speech_<timestamp>_<uuid>.mp3 that can be drawn
MaxAudio == 3

FileNames == 1..MaxAudio

Texts ==
    {[len |-> 0, blank |-> FALSE]}
    \cup [len : {MinTextLen, MaxTextLen, MaxTextLen + 1}, blank : BOOLEAN]

\* what the engine does with a text: writes the file, raises without
\* leaving a file, raises after creating the file, or leaves an empty file
TtsOutcomes == {"ok", "raises", "raises_partial", "empty_file"}

\* file: the file served; unlinked: the file the handler has removed
NoVoiceResponse == [status |-> 0, handler |-> FALSE, file |-> NoneVal,
                    unlinked |-> NoneVal]

\* no cleanup request is being answered
NoCleanup == [status |-> 0, cleaned |-> 0]

\* the age in seconds above which cleanup_audio_files removes a file
MaxAge == 3600

\* the times of day at which requests arrive, in seconds
Times == {0, 3600, 3601}

VoiceInit ==
    /\ tts_engine \in {"gtts", "pyttsx3", "none"}
    /\ voice_request = [len |-> MinTextLen, blank |-> FALSE]
    /\ voice_response = NoVoiceResponse
    /\ audio_files = {}
    /\ file_mtime = [f \in FileNames |-> 0]
    /\ other_files \in {{}, {"notes.txt"}}
    /\ clock = 0
    /\ cleanup_response = NoCleanup

\* GET /voice?text=...: the Query constraints, then generate_voice.  A file
\* that raises_partial or pyttsx3 leaves behind stays in the directory; the
\* zero-byte file gTTS has written is unlinked before the 500 goes out
GenerateVoice ==
    \E text \in Texts :
        LET Answer(status, handler, file, unlinked) ==
                [status |-> status, handler |-> handler, file |-> file,
                 unlinked |-> unlinked]
        IN
        /\ voice_request' = text
        /\ IF text.len < MinTextLen \/ text.len > MaxTextLen
           THEN /\ voice_response' = Answer(422, FALSE, NoneVal, NoneVal)
                /\ UNCHANGED audio_files
           ELSE IF text.len = 0 \/ text.blank
           THEN /\ voice_response' = Answer(400, TRUE, NoneVal, NoneVal)
                /\ UNCHANGED audio_files
           ELSE IF tts_engine = "none"
           THEN /\ voice_response' = Answer(503, TRUE, NoneVal, NoneVal)
                /\ UNCHANGED audio_files
           ELSE \E outcome \in TtsOutcomes, file \in FileNames \ audio_files :
                        IF outcome = "ok"
                        THEN /\ audio_files' = audio_files \cup {file}
                             /\ voice_response' =
                                   Answer(200, TRUE, file, NoneVal)
                        ELSE IF outcome = "raises"
                        THEN /\ UNCHANGED audio_files
                             /\ voice_response' =
                                   Answer(500, TRUE, NoneVal, NoneVal)
                        ELSE IF outcome = "raises_partial"
                                \/ tts_engine = "pyttsx3"
                        THEN /\ audio_files' = audio_files \cup {file}
                             /\ voice_response' =
                                   Answer(500, TRUE, NoneVal, NoneVal)
                        ELSE \* audio_path.unlink(missing_ok=True)
                             /\ audio_files' =
                                   (audio_files \cup {file}) \ {file}
                             /\ voice_response' =
                                   Answer(500, TRUE, NoneVal, file)
        /\ file_mtime' = [f \in FileNames |->
                             IF f \in audio_files' \ audio_files THEN clock
                             ELSE file_mtime[f]]
        /\ cleanup_response' = NoCleanup
        /\ UNCHANGED <<tts_engine, other_files, clock>>

\* mutant: a file of exactly one hour is removed as well
ExpiredAtHour(file_age) == file_age >= MaxAge
\* cleanup_audio_files: if file_age > 3600
Expired(file_age) == file_age > MaxAge

\* DELETE /voice/cleanup: every speech_*.mp3 file older than an hour is
\* unlinked unless its stat or unlink raises, which is logged; a directory
\* that does not exist is answered like one without such a file.  When the
\* look at the directory itself raises (temp_dir.exists(), the listing),
\* before any file is touched, the outer except answers 500 without a count
CleanupAudioFiles ==
    /\ \/ \E removed \in
              SUBSET {f \in audio_files : Expired(clock - file_mtime[f])} :
          /\ audio_files' = audio_files \ removed
          /\ cleanup_response' = [status |-> 200,
                                  cleaned |-> Cardinality(removed)]
       \/ /\ UNCHANGED audio_files
          /\ cleanup_response' = [status |-> 500, cleaned |-> NoneVal]
    /\ UNCHANGED <<tts_engine, voice_request, voice_response, file_mtime,
                   other_files, clock>>

\* time passes; the responses have gone out
Tick ==
    /\ \E t \in Times : t > clock /\ clock' = t
    /\ cleanup_response' = NoCleanup
    /\ UNCHANGED <<tts_engine, voice_request, voice_response, audio_files,
                   file_mtime, other_files>>

VoiceStep ==
    \/ GenerateVoice
    \/ CleanupAudioFiles
    \/ Tick

\* the voice endpoint is not part of the run
VoiceIdle ==
    /\ tts_engine = "none"
    /\ voice_request = [len |-> 0, blank |-> FALSE]
    /\ voice_response = NoVoiceResponse
    /\ audio_files = {}
    /\ file_mtime = <<>>
    /\ other_files = {}
    /\ clock = 0
    /\ cleanup_response = NoCleanup

(***************************************************************************)
(* AccessAtlasModel (models/baseline/model_v2.py and model.py).  A tensor  *)
(* is its shape; a layer returns the shape of its output or the exception  *)
(* it raises.                                                              *)
(***************************************************************************)
\* largest batch size
MaxBatch == 3

Tensor(shape) == [raised |-> "", shape |-> shape]

Fail(e) == [raised |-> e, shape |-> <<>>]

\* number of elements of dimensions from..Len(shape)
RECURSIVE Numel(_, _)
Numel(shape, from) ==
    IF from > Len(shape) THEN 1 ELSE shape[from] * Numel(shape, from + 1)

\* nn.Conv2d(cin, cout, kernel_size=3, padding=1)
Conv2d(x, cin, cout) ==
    IF x.raised # "" THEN x
    ELSE IF Len(x.shape) # 4 \/ x.shape[2] # cin THEN Fail("RuntimeError")
    ELSE Tensor(<<x.shape[1], cout, x.shape[3], x.shape[4]>>)

\* nn.BatchNorm1d(n) / nn.BatchNorm2d(n)
BatchNorm(x, n, training) ==
    IF x.raised # "" THEN x
    ELSE IF Len(x.shape) < 2 \/ x.shape[2] # n THEN Fail("RuntimeError")
    ELSE IF training /\ x.shape[1] * Numel(x.shape, 3) = 1
    THEN Fail("ValueError")
    ELSE x

\* nn.MaxPool2d(2, 2)
MaxPool2d(x) ==
    IF x.raised # "" THEN x
    ELSE IF x.shape[3] \div 2 = 0 \/ x.shape[4] \div 2 = 0
    THEN Fail("RuntimeError")
    ELSE Tensor(<<x.shape[1], x.shape[2], x.shape[3] \div 2,
                  x.shape[4] \div 2>>)

\* nn.AdaptiveAvgPool2d((1, 1))
AdaptiveAvgPool2d(x) ==
    IF x.raised # "" THEN x
    ELSE Tensor(<<x.shape[1], x.shape[2], 1, 1>>)

\* x.view(x.size(0), -1)
View(x) ==
    IF x.raised # "" THEN x
    ELSE Tensor(<<x.shape[1], Numel(x.shape, 2)>>)

\* nn.Linear(in_features, out_features)
Linear(x, in_features, out_features) ==
    IF x.raised # "" THEN x
    ELSE IF Len(x.shape) = 0 \/ x.shape[Len(x.shape)] # in_features
    THEN Fail("RuntimeError")
    ELSE Tensor([i \in 1..Len(x.shape) |->
                    IF i = Len(x.shape) THEN out_features ELSE x.shape[i]])

\* tensor.unsqueeze(1)
Unsqueeze(x) ==
    IF x.raised # "" THEN x
    ELSE IF Len(x.shape) = 0 THEN Fail("IndexError")
    ELSE Tensor(<<x.shape[1], 1>> \o SubSeq(x.shape, 2, Len(x.shape)))

\* torch.cat(xs, dim=1): dim is checked against the rank of the first tensor
\* (IndexError, dimension out of range), then the ranks and the other sizes
\* have to agree (RuntimeError)
Cat(xs) ==
    IF \E i \in 1..Len(xs) : xs[i].raised # ""
    THEN xs[CHOOSE i \in 1..Len(xs) : xs[i].raised # ""
                /\ \A j \in 1..(i - 1) : xs[j].raised = ""]
    ELSE IF Len(xs[1].shape) < 2 THEN Fail("IndexError")
    ELSE IF \E i \in 1..Len(xs) :
               \/ Len(xs[i].shape) # Len(xs[1].shape)
               \/ \E d \in 1..Len(xs[1].shape) :
                     d # 2 /\ xs[i].shape[d] # xs[1].shape[d]
    THEN Fail("RuntimeError")
    ELSE Tensor([d \in 1..Len(xs[1].shape) |->
                    IF d = 2
                    THEN SumSeq([i \in 1..Len(xs) |-> xs[i].shape[2]])
                    ELSE xs[1].shape[d]])

\* one block of CNNFeatureExtractor: conv, batch norm, relu, pool, dropout
ConvBlock(x, cin, cout, training) ==
    MaxPool2d(BatchNorm(Conv2d(x, cin, cout), cout, training))

\* CNNFeatureExtractor.forward (the same in model_v2.py and model.py)
CNNFeatureExtractor(x, channels, training) ==
    View(AdaptiveAvgPool2d(
        ConvBlock(ConvBlock(ConvBlock(x, 3, channels[1], training),
                            channels[1], channels[2], training),
                  channels[2], channels[3], training)))

Backbones ==
    {"custom", "resnet18", "resnet34", "resnet50", "efficientnet_b0",
     "efficientnet_b1", "mobilenet_v3_small", "mobilenet_v3_large"}

\* the number of channels the torchvision feature extractor ends with
BackboneChannels(model_name) ==
    CASE model_name \in {"resnet18", "resnet34"} -> 512
      [] model_name = "resnet50" -> 2048
      [] model_name \in {"efficientnet_b0", "efficientnet_b1"} -> 1280
      [] model_name = "mobilenet_v3_small" -> 576
      [] model_name = "mobilenet_v3_large" -> 960

\* PretrainedBackbone.output_dim
BackboneOutputDim(model_name) ==
    CASE model_name \in {"resnet18", "resnet34"} -> 512
      [] model_name = "resnet50" -> 2048
      [] model_name \in {"efficientnet_b0", "efficientnet_b1"} -> 1280
      [] model_name = "mobilenet_v3_small" -> 576
      [] model_name = "mobilenet_v3_large" -> 960

\* PretrainedBackbone.forward
PretrainedBackbone(x, model_name) ==
    IF x.raised # "" THEN x
    ELSE IF Len(x.shape) # 4 \/ x.shape[2] # 3 THEN Fail("RuntimeError")
    ELSE View(Tensor(<<x.shape[1], BackboneChannels(model_name), 1, 1>>))

\* the Sequential of MetadataEncoder and of FusionLayer
Mlp(x, input_dim, hidden_dim, training) ==
    BatchNorm(Linear(BatchNorm(Linear(x, input_dim, hidden_dim),
                               hidden_dim, training),
                     hidden_dim, hidden_dim),
              hidden_dim, training)

\* MetadataEncoder.forward of model_v2.py
MetadataEncoder(lat, lon, source_onehot, cfg, training) ==
    Mlp(Cat(<<Unsqueeze(lat), Unsqueeze(lon), source_onehot>>),
        2 + cfg.num_sources, cfg.metadata_hidden, training)

\* MetadataEncoder.forward of model.py
BaselineMetadataEncoder(lat, lon, source_onehot, cfg, training) ==
    Mlp(Cat(<<lat, lon, source_onehot>>),
        2 + cfg.num_sources, cfg.metadata_hidden, training)

\* FusionLayer.forward
FusionLayer(image_features, metadata_features, image_dim, cfg, training) ==
    Mlp(Cat(<<image_features, metadata_features>>),
        image_dim + cfg.metadata_hidden, cfg.fusion_hidden, training)

\* ClassificationHead.forward
ClassificationHead(x, cfg) == Linear(x, cfg.fusion_hidden, cfg.num_classes)

\* image_encoder.output_dim
ImageDim(cfg) ==
    IF cfg.backbone = "custom" THEN cfg.cnn_channels[3]
    ELSE BackboneOutputDim(cfg.backbone)

\* AccessAtlasModel.forward of model_v2.py
AccessAtlasModelV2(cfg, training, image, lat, lon, source_onehot) ==
    ClassificationHead(
        FusionLayer(
            IF cfg.backbone = "custom"
            THEN CNNFeatureExtractor(image, cfg.cnn_channels, training)
            ELSE PretrainedBackbone(image, cfg.backbone),
            MetadataEncoder(lat, lon, source_onehot, cfg, training),
            ImageDim(cfg), cfg, training),
        cfg)

\* AccessAtlasModel.forward of model.py
AccessAtlasModelBaseline(cfg, training, image, lat, lon, source_onehot) ==
    ClassificationHead(
        FusionLayer(
            CNNFeatureExtractor(image, cfg.cnn_channels, training),
            BaselineMetadataEncoder(lat, lon, source_onehot, cfg, training),
            cfg.cnn_channels[3], cfg, training),
        cfg)

AccessAtlasModel(cfg, training, image, lat, lon, source_onehot) ==
    IF cfg.module = "model_v2"
    THEN AccessAtlasModelV2(cfg, training, image, lat, lon, source_onehot)
    ELSE AccessAtlasModelBaseline(cfg, training, image, lat, lon,
                                  source_onehot)

\* the constructor arguments: model_v2.py with every backbone, model.py
\* with its custom CNN
NetConfigs ==
    {cfg \in [module : {"model_v2", "model"}, backbone : Backbones,
              num_classes : {2, 5}, num_sources : {1, 3},
              cnn_channels : {<<32, 64, 128>>},
              metadata_hidden : {64}, fusion_hidden : {256}] :
        cfg.module = "model" => cfg.backbone = "custom"}

ImageSizes == {64, 224}

\* the arguments of a forward call: lat and lon of shape [B] or [B, 1]
NetInputs ==
    [B : 1..MaxBatch, size : ImageSizes, coord_rank : {1, 2},
     S : {1, 3}]

NoInput == [B |-> 0, size |-> 0, coord_rank |-> 0, S |-> 0,
            training |-> FALSE]

CoordShape(in) == IF in.coord_rank = 1 THEN <<in.B>> ELSE <<in.B, 1>>

NetInit ==
    /\ net_config \in NetConfigs
    /\ net_training = TRUE
    /\ net_input = NoInput
    /\ net_output = Tensor(<<>>)

\* model.train()
ModelTrain ==
    /\ ~net_training
    /\ net_training' = TRUE
    /\ UNCHANGED <<net_config, net_input, net_output>>

\* model.eval()
ModelEval ==
    /\ net_training
    /\ net_training' = FALSE
    /\ UNCHANGED <<net_config, net_input, net_output>>

\* model(image, lat, lon, source_onehot)
Forward ==
    \E in \in NetInputs :
        /\ net_input' = [B |-> in.B, size |-> in.size,
                          coord_rank |-> in.coord_rank, S |-> in.S,
                          training |-> net_training]
        /\ net_output' =
              AccessAtlasModel(net_config, net_training,
                               Tensor(<<in.B, 3, in.size, in.size>>),
                               Tensor(CoordShape(in)), Tensor(CoordShape(in)),
                               Tensor(<<in.B, in.S>>))
        /\ UNCHANGED <<net_config, net_training>>

NetStep == ModelTrain \/ ModelEval \/ Forward

\* no model is part of the run
NetIdle ==
    /\ net_config = [module |-> "none"]
    /\ net_training = FALSE
    /\ net_input = NoInput
    /\ net_output = Tensor(<<>>)

(***************************************************************************)
(* load_checkpoint into a freshly constructed trainer of the configuration *)
(* of the trainer that saved (train.py, train_pipeline.py).                *)
(***************************************************************************)
NoFile == <<>>

\* the trainer as its constructor leaves it; its model has its own random
\* initial weights, which are not the weights of the trainer that saved
FreshTrainer ==
    [loaded |-> NoFile,
     model_state |-> NoneVal,
     optimizer_state |-> 0,
     scheduler_state |-> 0,
     current_epoch |-> 0,
     best_val_acc |-> 0]

\* mutant: the scheduler is not restored
LoadedWithoutScheduler(tr, ckpt, cfg) ==
    [tr EXCEPT !.model_state = ckpt.model_state_dict,
               !.optimizer_state = ckpt.optimizer_state_dict,
               !.current_epoch = ckpt.epoch,
               !.best_val_acc = ckpt.best_val_acc]
\* the trainer tr after load_checkpoint has read the checkpoint ckpt
Loaded(tr, ckpt, cfg) ==
    [tr EXCEPT !.model_state = ckpt.model_state_dict,
               !.optimizer_state = ckpt.optimizer_state_dict,
               !.scheduler_state =
                   IF cfg.scheduler /\ ckpt.scheduler_state_dict # NoneVal
                   THEN ckpt.scheduler_state_dict ELSE @,
               !.current_epoch = ckpt.epoch,
               !.best_val_acc = ckpt.best_val_acc]

\* model(x) in eval mode: determined by the weights and the input
Logits(weights, x) == <<weights, x>>

FreshInit == fresh = FreshTrainer

\* load_checkpoint(filepath) of a file of checkpoint_dir
LoadCheckpoint ==
    \E name \in DOMAIN files :
        /\ fresh' = [Loaded(fresh, files[name], config) EXCEPT !.loaded = name]
        /\ UNCHANGED trainerVars

\* no second trainer is part of the run
RestoreIdle == fresh = FreshTrainer

(***************************************************************************)
(* Evaluator (models/baseline/evaluate.py).  A confidence is one of a few  *)
(* levels; info is the position of the sample in the split, which names    *)
(* its image.                                                              *)
(***************************************************************************)
\* largest number of samples of the split
MaxPreds == 3
\* the confidences, as levels
Confidences == {1, 2, 3}
\* largest top_k
MaxTopK == 3

\* the labels of self.tag_types, as indices
EvClasses == {0, 1}

\* the contents of data.images_dir a run may find: the positions of the
\* samples whose image opens
ImageDirs == {1..MaxPreds, 2..MaxPreds, {}}

\* the labels and predictions the model may give over the split
PredictionLists ==
    UNION {{[i \in 1..n |->
                [label |-> f[i].label, predicted |-> f[i].predicted,
                 confidence |-> f[i].confidence,
                 correct |-> f[i].label = f[i].predicted,
                 info |-> i]] :
              f \in [1..n -> [label : EvClasses, predicted : EvClasses,
                              confidence : Confidences]]} :
           n \in 0..MaxPreds}

\* [p for p in predictions if not p['correct']]
Errors(predictions) == SelectSeq(predictions, LAMBDA p : ~p.correct)

\* position the stable descending sort gives e among the sorted: after
\* every element that is not smaller
RECURSIVE InsertDescending(_, _)
InsertDescending(sorted, e) ==
    IF sorted = <<>> THEN <<e>>
    ELSE IF Head(sorted).confidence >= e.confidence
    THEN <<Head(sorted)>> \o InsertDescending(Tail(sorted), e)
    ELSE <<e>> \o sorted

\* mutant: the least confident errors first
RECURSIVE SortAscending(_)
SortAscending(errors) ==
    IF errors = <<>> THEN <<>>
    ELSE LET rest == SortAscending(SubSeq(errors, 1, Len(errors) - 1))
             e == errors[Len(errors)]
             before == SelectSeq(rest, LAMBDA x : x.confidence <= e.confidence)
             after == SelectSeq(rest, LAMBDA x : x.confidence > e.confidence)
         IN before \o <<e>> \o after
\* errors.sort(key=lambda x: x['confidence'], reverse=True)
RECURSIVE SortByConfidence(_)
SortByConfidence(errors) ==
    IF errors = <<>> THEN <<>>
    ELSE InsertDescending(
             SortByConfidence(SubSeq(errors, 1, Len(errors) - 1)),
             errors[Len(errors)])

\* errors[:top_k]
Slice(s, k) == SubSeq(s, 1, IF k < Len(s) THEN k ELSE Len(s))

NoReport == [written |-> FALSE]

\* save_misclassified_images(errors, split): the i-th error is saved under
\* its number i and its labels and confidence when its image opens; an image
\* that fails to open is reported and skipped
SaveMisclassifiedImages(errors, images_dir) ==
    SelectSeq([i \in 1..Len(errors) |->
                  [number |-> i, label |-> errors[i].label,
                   predicted |-> errors[i].predicted,
                   confidence |-> errors[i].confidence,
                   info |-> errors[i].info]],
              LAMBDA image : image.info \in images_dir)

\* what analyze_errors(predictions, split, top_k) writes: nothing when no
\* sample is misclassified
ErrorAnalysis(predictions, top_k, cfg) ==
    LET errors == SortByConfidence(Errors(predictions))
    IN IF Len(errors) = 0 THEN NoReport
       ELSE [written |-> TRUE,
             top_k |-> top_k,
             total_errors |-> Len(errors),
             total_samples |-> Len(predictions),
             error_rate |-> <<Len(errors) * 100, Len(predictions)>>,
             top_k_errors |-> Slice(errors, top_k),
             images |-> IF cfg.save_misclassified
                        THEN SaveMisclassifiedImages(Slice(errors, top_k),
                                                     cfg.images_dir)
                        ELSE <<>>]

EvaluatorInit ==
    /\ ev_pc = "constructed"
    /\ ev_config \in [save_misclassified : BOOLEAN, images_dir : ImageDirs]
    /\ ev_predictions = <<>>
    /\ ev_report = NoReport

\* the classes that occur among the labels and the predictions: the rows of
\* the arrays precision_recall_fscore_support returns
PresentClasses(predictions) ==
    {predictions[i].label : i \in 1..Len(predictions)}
    \cup {predictions[i].predicted : i \in 1..Len(predictions)}

\* metrics, predictions = evaluator.evaluate(loader): the per-class metrics
\* index the arrays of the classes present by the classes of tag_types, which
\* raises IndexError over an empty split and when a class of tag_types
\* occurs neither as a label nor as a prediction
Evaluate ==
    /\ ev_pc = "constructed"
    /\ \E predictions \in PredictionLists :
          IF Cardinality(PresentClasses(predictions)) < Cardinality(EvClasses)
          THEN /\ ev_pc' = "raised"
               /\ UNCHANGED ev_predictions
          ELSE /\ ev_pc' = "evaluated"
               /\ ev_predictions' = predictions
    /\ UNCHANGED <<ev_config, ev_report>>

\* evaluator.analyze_errors(predictions, split, top_k)
AnalyzeErrors ==
    /\ ev_pc \in {"evaluated", "analyzed"}
    /\ \E top_k \in 0..MaxTopK :
          ev_report' = ErrorAnalysis(ev_predictions, top_k, ev_config)
    /\ ev_pc' = "analyzed"
    /\ UNCHANGED <<ev_config, ev_predictions>>

EvaluatorStep == Evaluate \/ AnalyzeErrors

\* no evaluator is part of the run
EvaluatorIdle ==
    /\ ev_pc = "idle"
    /\ ev_config = [save_misclassified |-> FALSE, images_dir |-> {}]
    /\ ev_predictions = <<>>
    /\ ev_report = NoReport

\* the trainer was constructed without resume_path
ResumedIdle == resume_accs = <<>>

(***************************************************************************)
(* Specifications: one per component; the components a run does not        *)
(* involve stay idle.                                                      *)
(***************************************************************************)
Idle(running) ==
    /\ IF "trainer" \in running THEN TRUE ELSE TrainerIdle
    /\ IF "preprocess" \in running THEN TRUE ELSE PreIdle
    /\ IF "dataset" \in running THEN TRUE ELSE DatasetIdle
    /\ IF "export" \in running THEN TRUE ELSE ExportIdle
    /\ IF "api" \in running THEN TRUE ELSE ApiIdle
    /\ IF "ml" \in running THEN TRUE ELSE MlIdle
    /\ IF "voice" \in running THEN TRUE ELSE VoiceIdle
    /\ IF "net" \in running THEN TRUE ELSE NetIdle
    /\ IF "restore" \in running THEN TRUE ELSE RestoreIdle
    /\ IF "evaluator" \in running THEN TRUE ELSE EvaluatorIdle
    /\ IF "osm" \in running THEN TRUE ELSE OsmIdle
    /\ IF "resumed" \in running THEN TRUE ELSE ResumedIdle

Frame(running) ==
    /\ IF "trainer" \in running THEN TRUE ELSE UNCHANGED trainerVars
    /\ IF "preprocess" \in running THEN TRUE ELSE UNCHANGED preVars
    /\ IF "dataset" \in running THEN TRUE ELSE UNCHANGED dsVars
    /\ IF "export" \in running THEN TRUE ELSE UNCHANGED expVars
    /\ IF "api" \in running THEN TRUE ELSE UNCHANGED apiVars
    /\ IF "ml" \in running THEN TRUE ELSE UNCHANGED mlVars
    /\ IF "voice" \in running THEN TRUE ELSE UNCHANGED voiceVars
    /\ IF "net" \in running THEN TRUE ELSE UNCHANGED netVars
    /\ IF "restore" \in running THEN TRUE ELSE UNCHANGED restoreVars
    /\ IF "evaluator" \in running THEN TRUE ELSE UNCHANGED evVars
    /\ IF "osm" \in running THEN TRUE ELSE UNCHANGED osmVars
    /\ IF "resumed" \in running THEN TRUE ELSE UNCHANGED resumedVars

Init == TrainerInit /\ Idle({"trainer"})

TrainerNext ==
    \/ TrainerStep
    \/ BatchRaises

Next == TrainerNext /\ Frame({"trainer"})

Spec == Init /\ [][Next]_vars

PreprocessInit == PreInit /\ Idle({"preprocess"})

PreprocessNext == PreStep /\ Frame({"preprocess"})

PreprocessSpec == PreprocessInit /\ [][PreprocessNext]_vars

DatasetSpecInit == DatasetInit /\ Idle({"dataset"})

DatasetNext == DatasetStep /\ Frame({"dataset"})

DatasetSpec == DatasetSpecInit /\ [][DatasetNext]_vars

ExportSpecInit == ExportInit /\ Idle({"export"})

ExportNext == ExportAll /\ Frame({"export"})

ExportSpec == ExportSpecInit /\ [][ExportNext]_vars

ApiSpecInit == ApiInit /\ Idle({"api"})

ApiNext == ApiStep /\ Frame({"api"})

ApiSpec == ApiSpecInit /\ [][ApiNext]_vars

DetectSpecInit == ApiInit /\ MlInit /\ Idle({"api", "ml"})

DetectNext == MlStep /\ Frame({"api", "ml"})

DetectSpec == DetectSpecInit /\ [][DetectNext]_vars

OsmSpecInit == OsmInit /\ Idle({"osm"})

OsmNext == OsmStep /\ Frame({"osm"})

OsmSpec == OsmSpecInit /\ [][OsmNext]_vars

\* the loop of fetch_osm_features runs on: every request returns or raises
\* within its timeout, and every sleep ends
OsmFairSpec == OsmSpec /\ WF_vars(OsmNext)

VoiceSpecInit == VoiceInit /\ Idle({"voice"})

VoiceNext == VoiceStep /\ Frame({"voice"})

VoiceSpec == VoiceSpecInit /\ [][VoiceNext]_vars

NetSpecInit == NetInit /\ Idle({"net"})

NetNext == NetStep /\ Frame({"net"})

NetSpec == NetSpecInit /\ [][NetNext]_vars

\* a training run of one batch per epoch whose checkpoints a second trainer
\* loads
RoundTripInit ==
    /\ TrainerInit
    /\ config.train_batches = 1
    /\ ~config.grad_clip
    /\ FreshInit
    /\ Idle({"trainer", "restore"})

RoundTripNext ==
    /\ \/ TrainerNext /\ UNCHANGED restoreVars
       \/ LoadCheckpoint
    /\ Frame({"trainer", "restore"})

RoundTripSpec == RoundTripInit /\ [][RoundTripNext]_vars

EvaluatorSpecInit == EvaluatorInit /\ Idle({"evaluator"})

EvaluatorNext == EvaluatorStep /\ Frame({"evaluator"})

EvaluatorSpec == EvaluatorSpecInit /\ [][EvaluatorNext]_vars

(***************************************************************************)
(* The run with the scheduling the interpreter gives it: train() keeps     *)
(* executing its next statement until it returns or an exception escapes.  *)
(***************************************************************************)
FairSpec == Init /\ [][Next]_vars /\ WF_vars(TrainerStep /\ Frame({"trainer"}))

(***************************************************************************)
(* Operators used to state the properties.                                 *)
(***************************************************************************)
\* the running best after the accuracies h, starting from 0.0
RECURSIVE RunningBest(_)
RunningBest(h) ==
    IF h = <<>> THEN 0
    ELSE LET r == RunningBest(SubSeq(h, 1, Len(h) - 1))
         IN IF h[Len(h)] > r THEN h[Len(h)] ELSE r

\* whether epoch i of h strictly exceeded the running best of the epochs before
Improved(h, i) == h[i] > RunningBest(SubSeq(h, 1, i - 1))

\* the last epoch of h that strictly exceeded the running best, 0 if none did
LastImprovement(h) ==
    LET imp == {i \in 1..Len(h) : Improved(h, i)}
    IN IF imp = {} THEN 0 ELSE CHOOSE i \in imp : \A j \in imp : j <= i

\* epochs whose checkpoint step has been passed
EpochsCheckpointed ==
    IF pc \in {"for", "early_stopping", "store_history", "save_log", "finished"}
    THEN EpochNo
    ELSE EpochNo - 1

CheckpointKeys ==
    {"epoch", "model_state_dict", "optimizer_state_dict",
     "scheduler_state_dict", "best_val_acc", "config"}

\* the value save_checkpoint stores under 'epoch' for the n-th epoch
EpochField(n) == IF IsAdvanced THEN n ELSE n - 1

\* ---------------------------------------------------------------- C1
\* C1: early stopping. With K the last epoch whose validation accuracy
\* strictly exceeded the running best (0 if none) and P the patience, no epoch
\* after K+P and none after num_epochs is trained, and the loop does not go
\* on to another epoch once K+P epochs are done.
C1_EarlyStopping ==
    LET K == LastImprovement(val_history)
        P == config.early_stopping_patience
    IN /\ EpochNo <= config.num_epochs
       /\ Len(val_history) <= K + P
       /\ pc \in {"train_epoch", "validate"} =>
            /\ Len(val_history) = EpochNo - 1
            /\ EpochNo <= K + P
       /\ pc = "for" => Len(val_history) < K + P

\* early stopping fired before the configured epochs were exhausted, after an
\* epoch that improved
C1_Witness ==
    /\ pc = "finished"
    /\ LastImprovement(val_history) >= 1
    /\ Len(val_history) =
          LastImprovement(val_history) + config.early_stopping_patience
    /\ Len(val_history) < config.num_epochs

\* ---------------------------------------------------------------- C2
\* C2 as stated: after every completed epoch a checkpoint of that epoch with
\* the six keys is on disk before the next epoch starts.
C2_Original ==
    \A n \in 1..EpochsCheckpointed :
        /\ CheckpointFile(n) \in DOMAIN files
        /\ DOMAIN files[CheckpointFile(n)] = CheckpointKeys
        /\ files[CheckpointFile(n)].epoch = EpochField(n)

\* C2 amended: in AdvancedTrainer, and in Trainer when logging.save_last is
\* set, after every completed epoch a checkpoint of that epoch with the six
\* keys is on disk before the next epoch starts.
C2_CheckpointEveryEpoch ==
    (IsAdvanced \/ config.save_last) => C2_Original

\* a second epoch is being trained and the first epoch's checkpoint is there
C2_Witness ==
    /\ pc = "train_epoch"
    /\ EpochNo = 2
    /\ CheckpointFile(1) \in DOMAIN files
    /\ ~IsAdvanced

\* ---------------------------------------------------------------- C3
\* the step that decides on the best checkpoint, and the accuracies of the
\* epochs before the current one at that step
AtBestStep == pc = IF IsAdvanced THEN "save_checkpoint" ELSE "check_best"
EarlierAccs ==
    IF IsAdvanced THEN val_history
    ELSE SubSeq(val_history, 1, Len(val_history) - 1)

\* best_model.pth is created or overwritten by this step
BestWritten ==
    /\ BestFile \in DOMAIN files'
    /\ BestFile \in DOMAIN files => files'[BestFile] # files[BestFile]

\* accuracies of the epochs whose best-model decision has been taken
DecidedAccs ==
    IF Len(val_history) >= EpochsCheckpointed
    THEN SubSeq(val_history, 1, EpochsCheckpointed)
    ELSE Append(val_history, val_acc)

\* optimizer steps of one epoch
StepsPerEpoch == config.train_batches \div config.grad_accumulation_steps

BestFileState ==
    LET h == DecidedAccs
        K == LastImprovement(h)
    IN IF K = 0
       THEN BestFile \notin DOMAIN files
       ELSE /\ BestFile \in DOMAIN files
            /\ files[BestFile].best_val_acc = RunningBest(h)
            /\ \A i \in 1..Len(h) : h[i] <= files[BestFile].best_val_acc
            /\ files[BestFile].epoch = EpochField(K)
            /\ \A i \in 1..(K - 1) : h[i] < h[K]
            /\ files[BestFile].model_state_dict = K * StepsPerEpoch

BestFileStep ==
    BestWritten <=> (AtBestStep /\ val_acc > RunningBest(EarlierAccs))

\* C3 as stated: best_model.pth is overwritten at the end of an epoch iff the
\* epoch's accuracy strictly exceeds the best of the earlier epochs; it holds
\* the maximum accuracy seen and the weights of the earliest epoch reaching it.
C3_Original == [](BestFileState) /\ [][BestFileStep]_vars

\* C3 amended: the same, in AdvancedTrainer and in Trainer when
\* logging.save_best_only is set (the best of no epochs being 0.0).
C3_BestCheckpoint ==
    /\ []((IsAdvanced \/ config.save_best_only) => BestFileState)
    /\ [][(IsAdvanced \/ config.save_best_only) => BestFileStep]_vars

\* the best checkpoint was written by the second epoch, and a third epoch that
\* only tied it has left it alone
C3_Witness ==
    /\ pc = "finished"
    /\ Len(val_history) = 3
    /\ LastImprovement(val_history) = 2
    /\ val_history[3] = val_history[2]
    /\ BestFile \in DOMAIN files
    /\ files[BestFile].epoch = EpochField(2)

\* ---------------------------------------------------------------- C4
\* the positions of one epoch, in the order of the stated state machine
Phase(p) ==
    CASE p = "for" -> "next-epoch"
      [] p = "train_epoch" -> "training-epoch"
      [] p = "validate" -> "validating-epoch"
      [] p \in {"scheduler", "save_last", "check_best", "save_checkpoint",
                "store_history"} -> "checkpoint"
      [] p = "early_stopping" -> "early-stop"
      [] p = "save_log" -> "finishing"
      [] p = "finished" -> "finished"
      [] p = "aborted" -> "aborted"

PhaseOrder ==
    {<<"next-epoch", "training-epoch">>, <<"next-epoch", "finishing">>,
     <<"training-epoch", "training-epoch">>,
     <<"training-epoch", "validating-epoch">>,
     <<"validating-epoch", "validating-epoch">>,
     <<"validating-epoch", "checkpoint">>,
     <<"checkpoint", "checkpoint">>, <<"checkpoint", "early-stop">>,
     <<"early-stop", "next-epoch">>, <<"early-stop", "finishing">>,
     <<"finishing", "finished">>,
     <<"training-epoch", "aborted">>, <<"validating-epoch", "aborted">>}

StateMachineStep ==
    /\ <<Phase(pc), Phase(pc')>> \in PhaseOrder
    \* the training pass is complete when the validation pass starts
    /\ (Phase(pc') = "validating-epoch" /\ Phase(pc) # "validating-epoch") =>
          Len(ops) = config.train_batches
    \* both passes are complete when a checkpoint is written
    /\ files' # files =>
          /\ Phase(pc) = "checkpoint"
          /\ Len(ops) = config.train_batches
          /\ batch_idx = config.val_batches
    \* the early-stop decision comes after the writes of its epoch
    /\ Phase(pc) = "early-stop" =>
          /\ files' = files
          /\ (IsAdvanced \/ config.save_last) =>
                CheckpointFile(EpochNo) \in DOMAIN files
          /\ (epochs_without_improvement = 0
                /\ (IsAdvanced \/ config.save_best_only)) =>
                (BestFile \in DOMAIN files
                   /\ files[BestFile].epoch = EpochField(EpochNo))
    \* an epoch is trained only after the checkpoint step of the one before
    /\ (Phase(pc') = "training-epoch" /\ Phase(pc) # "training-epoch") =>
          /\ Len(val_history) = EpochNo
          /\ (EpochNo >= 1 /\ (IsAdvanced \/ config.save_last)) =>
                CheckpointFile(EpochNo) \in DOMAIN files
    \* the log is written only after the last epoch or after early stop
    /\ log_saved' # log_saved =>
          /\ ~log_saved /\ Phase(pc') = "finished"
          /\ \/ epoch = LastEpoch
             \/ epochs_without_improvement >= config.early_stopping_patience
          /\ Len(val_history) = EpochNo

\* C4: every step of train() follows the order training pass, validation
\* pass, checkpoint (and maybe-best) write, early-stop decision, then the
\* next epoch or the finishing write of the log.
C4_StateMachine == [][StateMachineStep]_vars

\* a second epoch was trained and the run finished by early stopping
C4_Witness ==
    /\ pc = "finished"
    /\ log_saved
    /\ Len(val_history) = 2
    /\ config.num_epochs > 2
    /\ CheckpointFile(2) \in DOMAIN files

\* ---------------------------------------------------------------- C5
\* the run has reached the finished state, its log saved, after at most
\* num_epochs epochs
Finished ==
    /\ pc = "finished"
    /\ log_saved
    /\ Len(val_history) <= config.num_epochs

\* C5 as stated: a run in which no batch raises reaches the finished state,
\* its log saved, after at most num_epochs epochs.
C5_Original == <>(raised # 0 \/ Finished)

\* C5 amended: a run whose train loader and validation loader each hold at
\* least one batch and in which no batch raises reaches the finished state,
\* its log saved, after at most num_epochs epochs; over a loader without a
\* batch the first epoch ends in ZeroDivisionError.
C5_Terminates ==
    /\ (config.train_batches >= 1 /\ config.val_batches >= 1)
          => <>(raised # 0 \/ Finished)
    /\ (config.train_batches = 0 \/ config.val_batches = 0)
          => [](pc # "finished" /\ ~log_saved /\ EpochNo <= 1)

\* a run over loaders that hold batches has finished by exhausting its epochs
C5_Witness ==
    /\ pc = "finished"
    /\ raised = 0
    /\ config.train_batches >= 1
    /\ config.val_batches >= 1
    /\ Len(val_history) = config.num_epochs
    /\ config.num_epochs = MaxEpochs
    /\ epochs_without_improvement < config.early_stopping_patience

\* ---------------------------------------------------------------- C6
AbortedState ==
    raised # 0 =>
        /\ pc = "aborted"
        /\ ~log_saved
        /\ EpochNo = raised
        /\ Len(val_history) = raised - 1
        /\ \A f \in DOMAIN files : files[f].epoch < EpochField(raised)
        /\ CheckpointFile(raised) \notin DOMAIN files
        /\ BestEpochFile(raised) \notin DOMAIN files

\* C6: a batch that raises aborts the run: nothing is executed after it, the
\* failing epoch gets no checkpoint, the log is not saved and the checkpoints
\* of earlier epochs stay as they were.
C6_BatchFailureAborts ==
    /\ [](AbortedState)
    /\ [][raised = 0 /\ (raised' # 0 => files' = files /\ log_saved' = log_saved)]_vars

\* a batch of the second epoch raised, the first epoch's checkpoint exists
C6_Witness ==
    /\ raised = 2
    /\ pc = "aborted"
    /\ CheckpointFile(1) \in DOMAIN files

\* ---------------------------------------------------------------- C7
\* the operations of a batch that touch the gradients or the optimizer
RECURSIVE GradOps(_)
GradOps(s) ==
    IF s = <<>> THEN <<>>
    ELSE IF Head(s) \in {"backward", "clip", "step", "zero_grad"}
         THEN <<Head(s)>> \o GradOps(Tail(s))
         ELSE GradOps(Tail(s))

\* s is the beginning of t
IsPrefix(s, t) == Len(s) <= Len(t) /\ s = SubSeq(t, 1, Len(s))

\* C7: in AdvancedTrainer.train_epoch the optimizer steps exactly once after
\* each batch whose 1-based index is a multiple of grad_accumulation_steps
\* and after no other batch; gradients are zeroed right after each step and
\* at no other time; clipping, when configured, comes right before the step.
\* A batch in which the run aborted has performed a beginning of these
\* operations.
C7_GradAccumulation ==
    IsAdvanced =>
        \A b \in 1..Len(ops) :
            LET g == GradOps(ops[b])
                N == config.grad_accumulation_steps
                expected ==
                    IF b % N = 0
                    THEN <<"backward">>
                         \o (IF config.grad_clip THEN <<"clip">> ELSE <<>>)
                         \o <<"step", "zero_grad">>
                    ELSE <<"backward">>
            IN /\ IsPrefix(g, expected)
               /\ (raised = 0 \/ b < Len(ops)) => g = expected

\* two batches were accumulated into one clipped optimizer step
C7_Witness ==
    /\ IsAdvanced
    /\ config.grad_accumulation_steps = 2
    /\ config.grad_clip
    /\ Len(ops) = 2
    /\ CountOp(ops[1], "step") = 0
    /\ CountOp(ops[2], "step") = 1
    /\ optimizer_state >= 1

\* ---------------------------------------------------------------- C8
RatioSum == pre_args.train + pre_args.val + pre_args.test

\* the run was refused at construction: nothing read, nothing written
RejectedBeforeWork ==
    /\ pre_pc \in {"new", "rejected"}
    /\ ~csv_read
    /\ out_files = {}
    /\ splits = NoSplits

\* C8 as stated: ratios that do not sum to 1.0 are refused before the CSV is
\* read and before any output file is written.
C8_Original == RatioSum # One => RejectedBeforeWork

\* C8 amended: ratios whose sum differs from 1.0 by more than np.isclose's
\* tolerance (1e-8 + 1e-5) are refused before the CSV is read and before any
\* output file is written.
C8_BadRatiosRejected ==
    Abs(RatioSum - One) > 1001 => RejectedBeforeWork

\* the command line was refused for ratios summing to 1.1
C8_Witness ==
    /\ pre_pc = "rejected"
    /\ pre_args.entry = "cli"
    /\ RatioSum = Pct(110)
    /\ Len(csv.rows) >= 3
    /\ ~csv_read

\* ---------------------------------------------------------------- C9
\* C9: with a required column missing, preprocess fails and writes none of
\* its four output files.
C9_MissingColumnsFatal ==
    (RequiredCols \ csv.columns # {}) =>
        /\ pre_pc \in {"new", "rejected", "constructed", "failed_columns"}
        /\ out_files \cap OutputFiles = {}
        /\ splits = NoSplits

\* preprocess read a CSV without its source column and failed
C9_Witness ==
    /\ pre_pc = "failed_columns"
    /\ "source" \notin csv.columns
    /\ csv_read
    /\ Len(csv.rows) = MaxRows
    /\ out_files = {}

\* ---------------------------------------------------------------- C10
\* a sequence without repeated elements
NoDuplicates(s) == \A i, j \in 1..Len(s) : s[i] = s[j] => i = j

PairwiseDisjoint ==
    /\ NoDuplicates(splits.train \o splits.val \o splits.test)

\* C10 as stated: the partitions are pairwise disjoint and their sizes sum to
\* the number of rows of the input CSV.
C10_Original ==
    pre_pc = "done" =>
        /\ PairwiseDisjoint
        /\ Len(splits.train) + Len(splits.val) + Len(splits.test)
              = Len(csv.rows)

\* C10 amended: the partitions are pairwise disjoint and together hold exactly
\* the input rows that have no missing value in a required column (rows with
\* a missing value are dropped, rows whose image file is missing are kept).
C10_Partition ==
    pre_pc = "done" =>
        LET kept == {i \in 1..Len(csv.rows) : ~csv.rows[i].null}
        IN /\ PairwiseDisjoint
           /\ Range(splits.train) \cup Range(splits.val) \cup Range(splits.test)
                 = kept
           /\ Len(splits.train) + Len(splits.val) + Len(splits.test)
                 = Cardinality(kept)
           /\ Len(splits.train) > 0 /\ Len(splits.val) > 0 /\ Len(splits.test) > 0
           /\ out_files = OutputFiles

\* a CSV of two tag types, one row without its image file, one row with a
\* missing value, was split into three partitions
C10_Witness ==
    /\ pre_pc = "done"
    /\ \E i, j \in Range(splits.train) : csv.rows[i].type # csv.rows[j].type
    /\ \E i \in 1..Len(csv.rows) :
          /\ ~csv.rows[i].image
          /\ i \in Range(splits.train) \cup Range(splits.val) \cup Range(splits.test)
    /\ \E i \in 1..Len(csv.rows) : csv.rows[i].null
    /\ RatioSum = One

(***************************************************************************)
(* C11: determinism of the preprocessor.                                   *)
(***************************************************************************)
\* C11: a second run of preprocess with the same input CSV, the same seed and
\* the same ratios completes like the first and produces the same train, val
\* and test partitions (the same rows in the same order) and the same
\* metadata, whatever the state of the process-global generator.
C11_Deterministic ==
    first_run # NoRun =>
        /\ pre_pc = "done"
        /\ splits = first_run.splits
        /\ metadata = first_run.metadata

\* a CSV of two tag types was preprocessed twice, the train partition
\* holding several rows of both types in an order other than the CSV's
C11_Witness ==
    /\ first_run # NoRun
    /\ pre_pc = "done"
    /\ \E i, j \in Range(splits.train) : csv.rows[i].type # csv.rows[j].type
    /\ \E i, j \in 1..Len(splits.train) : i < j /\ splits.train[i] > splits.train[j]
    /\ metadata.num_classes = 2

(***************************************************************************)
(* C12: the example of 500 rows, five tag types of 100 rows each.          *)
(***************************************************************************)
\* the rows of type t in the partition p
TypeCount(p, t) == Len(SelectIds(p, csv.rows, t))

\* the partition p holds every tag type in proportion to its share of the
\* input, to within one row
Proportional(p) ==
    \A t \in TagTypes :
        LET share == TypeCount(DropNa(csv.rows, 1), t)
            total == Len(DropNa(csv.rows, 1))
        IN /\ TypeCount(p, t) > 0
           /\ Abs(TypeCount(p, t) * total - share * Len(p)) <= total

\* C12: for the input of 500 rows with 5 tag types of 100 rows each and
\* ratios 0.7/0.15/0.15, the two-stage split yields a train partition of 350
\* rows and val and test partitions of 75 rows each, each within one row,
\* and every tag type appears in every partition in proportion to its share
\* of the input.
C12_EvenSplit ==
    (/\ csv = EvenCsv
     /\ pre_args.train = Pct(70) /\ pre_args.val = Pct(15)
     /\ pre_args.test = Pct(15)
     /\ pre_pc \notin {"new", "constructed"})
    => /\ pre_pc = "done"
       /\ Abs(Len(splits.train) - 350) <= 1
       /\ Abs(Len(splits.val) - 75) <= 1
       /\ Abs(Len(splits.test) - 75) <= 1
       /\ Proportional(splits.train)
       /\ Proportional(splits.val)
       /\ Proportional(splits.test)

\* the 500-row input was split with ratios 0.7/0.15/0.15 and seed 42 into
\* 350, 75 and 75 rows, 70, 15 and 15 of them of type Ramp
C12_Witness ==
    /\ csv = EvenCsv
    /\ pre_args.train = Pct(70) /\ pre_args.val = Pct(15)
    /\ pre_args.test = Pct(15) /\ pre_args.seed = 42
    /\ pre_pc = "done"
    /\ Len(splits.train) = 350 /\ Len(splits.val) = 75 /\ Len(splits.test) = 75
    /\ TypeCount(splits.train, "Ramp") = 70
    /\ TypeCount(splits.val, "Ramp") = 15
    /\ TypeCount(splits.test, "Ramp") = 15

(***************************************************************************)
(* C13: totality of TagDataset.__getitem__.                                *)
(***************************************************************************)
\* the row of the CSV that __getitem__ was last called for
ItemRow == ds_df[ds_idx + 1]

\* C13: __getitem__ is total: for every index in 0..len(dataset)-1 it returns
\* a sample without raising, with a blank image when the row's image file is
\* missing or corrupt, a label that is a valid class index and a
\* source_onehot with exactly one entry equal to 1.
C13_Original ==
    ds_idx # NoneVal =>
        /\ ds_item.raised = "none"
        /\ ItemRow.image \in {"missing", "corrupt"} => ds_item.image = "blank"
        /\ ds_item.label \in 0..(Len(ds_args.tag_types) - 1)
        /\ Len(ds_item.source_onehot) = Len(ds_args.source_types)
        /\ SumSeq(ds_item.source_onehot) = 1

(***************************************************************************)
(* C14: export_all and failing formats.                                    *)
(***************************************************************************)
Logged(e) == \E i \in 1..Len(exp_log) : exp_log[i] = e

OnnxFile == IF exp_env.quantize THEN "model_quantized.onnx" ELSE "model.onnx"

\* the benchmark has run and export_metadata.json is written
RemainingStepsRan ==
    /\ Logged("benchmark")
    /\ "export_metadata.json" \in exp_files

\* C14 as stated: whatever library is missing and whichever format's
\* conversion fails, export_all does not abort: every run that has left the
\* three export steps behind goes on to the benchmark and the metadata, and
\* a finished run has exported every format that did not fail.
C14_Original ==
    /\ exp_pc # "raised"
    /\ exp_pc = "done" =>
          /\ RemainingStepsRan
          /\ OnnxFile \in exp_files
          /\ "model.pt" \in exp_files

\* C14 amended: a missing onnx or coremltools library and a failing CoreML
\* conversion are reported and skipped, and the remaining steps run; a
\* failure of the ONNX export, of its verification or of the TorchScript
\* export escapes export_all, and then neither the benchmark runs nor
\* export_metadata.json is written.
C14_SkippedSteps ==
    LET onnx_fails == \/ ~exp_env.onnx_export_ok
                      \/ exp_env.onnx_installed /\ ~exp_env.onnx_check_ok
        coreml_exported == /\ exp_env.coreml_installed
                           /\ exp_env.coreml_convert_ok
    IN /\ exp_pc = "raised" =>
             /\ onnx_fails \/ ~exp_env.trace_ok
             /\ ~Logged("benchmark")
             /\ "export_metadata.json" \notin exp_files
       /\ exp_pc \in {"benchmark", "save_metadata", "done"} =>
             /\ ~onnx_fails /\ exp_env.trace_ok
             /\ OnnxFile \in exp_files
             /\ "model.pt" \in exp_files
             /\ "model.mlmodel" \in exp_files <=> coreml_exported
             /\ ~exp_env.onnx_installed => Logged("ONNX not installed")
             /\ ~exp_env.coreml_installed => Logged("CoreMLTools not installed")
             /\ (exp_env.coreml_installed /\ ~exp_env.coreml_convert_ok)
                    => Logged("CoreML export failed")
       /\ exp_pc = "done" => RemainingStepsRan

\* an export without the onnx library whose CoreML conversion failed has
\* finished with the benchmark run and the metadata written
C14_Witness ==
    /\ exp_pc = "done"
    /\ ~exp_env.onnx_installed
    /\ exp_env.coreml_installed /\ ~exp_env.coreml_convert_ok
    /\ Logged("CoreML export failed")
    /\ RemainingStepsRan
    /\ "model.mlmodel" \notin exp_files

(***************************************************************************)
(* C15: confidence only for model tags, osm_id only for OSM tags.          *)
(***************************************************************************)
\* a tag or a row that has a confidence without being a model tag, or an
\* osm_id without being an OSM tag
Violating(t) ==
    \/ t.confidence # NoneVal /\ t.source # "model"
    \/ t.osm_id # NoneVal /\ t.source # "osm"

\* C15: after any sequence of API requests every stored tag has a confidence
\* only if its source is model and an osm_id only if its source is osm, and
\* a store request containing a tag that violates this is rejected by
\* validation (422, the handler does not run) and stores nothing.
C15_SourceFields ==
    /\ [](\A i \in 1..Len(db_tags) : ~Violating(db_tags[i]))
    /\ [][(/\ api_request'.kind = "store"
           /\ \E i \in 1..Len(api_request'.tags) :
                 Violating(api_request'.tags[i]))
          => (/\ api_response'.status = 422
              /\ ~api_response'.handler
              /\ db_tags' = db_tags)]_vars

\* the table holds a model tag with a confidence and an OSM tag with an
\* osm_id, and a store request with a user tag carrying a confidence has
\* just been rejected
C15_Witness ==
    /\ \E i \in 1..Len(db_tags) :
          db_tags[i].source = "model" /\ db_tags[i].confidence = 92
    /\ \E i \in 1..Len(db_tags) :
          db_tags[i].source = "osm" /\ db_tags[i].osm_id = 123456
    /\ api_request.kind = "store"
    /\ \E i \in 1..Len(api_request.tags) :
          /\ api_request.tags[i].source = "user"
          /\ api_request.tags[i].confidence = 92
    /\ api_response.status = 422

(***************************************************************************)
(* C19: a store request without tags.                                      *)
(***************************************************************************)
\* C19: a POST /api/tags/store request whose tags list is empty is rejected
\* with a 422 validation error before the handler body runs, and the set of
\* stored tags is unchanged.
C19_EmptyTagsRejected ==
    [][(api_request'.kind = "store" /\ api_request'.tags = <<>>)
          => (/\ api_response'.status = 422
              /\ ~api_response'.handler
              /\ db_tags' = db_tags)]_vars

\* a store request with a location name and an empty tags list has been
\* rejected while the table holds tags
C19_Witness ==
    /\ api_request.kind = "store"
    /\ api_request.location_name # ""
    /\ api_request.tags = <<>>
    /\ api_response.status = 422
    /\ db_tags # <<>>

(***************************************************************************)
(* C20: GET /voice with an empty or an overlong text.                      *)
(***************************************************************************)
\* C20: GET /voice called with an empty text is rejected with status 400
\* ("Text cannot be empty") and a text longer than 500 characters is
\* rejected with status 422; in both cases no audio file is created,
\* whether or not a TTS engine is available.
C20_Original ==
    [][/\ voice_request'.len = 0 =>
             (voice_response'.status = 400 /\ audio_files' = audio_files)
       /\ voice_request'.len > MaxTextLen =>
             (voice_response'.status = 422 /\ audio_files' = audio_files)
      ]_vars

(***************************************************************************)
(* C16: the shape of the logits.                                           *)
(***************************************************************************)
\* a batch size the batch-norm layers accept: in training mode they need
\* more than one value per channel
ValidBatch == net_input.B >= 2 \/ ~net_input.training

\* C16: for every valid batch size B and every supported backbone,
\* AccessAtlasModel.forward called with image [B,3,H,W], lat [B], lon [B]
\* and source_onehot [B,S] returns logits of shape [B, num_classes].
C16_Original ==
    (/\ net_input # NoInput
     /\ net_input.coord_rank = 1
     /\ net_input.S = net_config.num_sources
     /\ ValidBatch)
    => net_output = Tensor(<<net_input.B, net_config.num_classes>>)

(***************************************************************************)
(* C17: checkpoint round trip.                                             *)
(***************************************************************************)
\* save_checkpoint writes the state the trainer has when it is called (the
\* state the step that calls it ends in)
SaveCaptures ==
    \A name \in DOMAIN files' :
        (name \notin DOMAIN files \/ files'[name] # files[name]) =>
            /\ files'[name].model_state_dict = model_state'
            /\ files'[name].optimizer_state_dict = optimizer_state'
            /\ config.scheduler =>
                  files'[name].scheduler_state_dict = scheduler_state'
            /\ files'[name].epoch = epoch'
            /\ files'[name].best_val_acc = best_val_acc'

\* load_checkpoint leaves the fresh trainer with the state of the file
LoadRestores ==
    fresh' # fresh =>
        LET ckpt == files[fresh'.loaded]
        IN /\ fresh'.model_state = ckpt.model_state_dict
           /\ \A x \in {0, 1} :
                 Logits(fresh'.model_state, x)
                     = Logits(ckpt.model_state_dict, x)
           /\ fresh'.optimizer_state = ckpt.optimizer_state_dict
           /\ config.scheduler =>
                 fresh'.scheduler_state = ckpt.scheduler_state_dict
           /\ fresh'.current_epoch = ckpt.epoch
           /\ fresh'.best_val_acc = ckpt.best_val_acc

\* C17: saving a trainer's state with save_checkpoint and loading it with
\* load_checkpoint into a freshly constructed trainer of identical
\* configuration restores the model weights (hence the logits of a fixed
\* input), the optimizer state, the scheduler state, the epoch and
\* best_val_acc.
C17_RoundTrip == [][SaveCaptures /\ LoadRestores]_vars

C17_Witness ==
    /\ fresh.loaded # NoFile
    /\ config.scheduler
    /\ fresh.model_state > 0
    /\ fresh.scheduler_state > 0
    /\ fresh.best_val_acc > 0
    /\ fresh.current_epoch > 1

(***************************************************************************)
(* C18: the error analysis.                                                *)
(***************************************************************************)
\* the positions of the reported samples
Reported == {ev_report.top_k_errors[i].info :
                i \in 1..Len(ev_report.top_k_errors)}

Misclassified == {i \in 1..Len(ev_predictions) : ~ev_predictions[i].correct}

\* C18: analyze_errors with parameter top_k reports exactly the
\* min(top_k, number of misclassifications) misclassified predictions of
\* highest confidence, in non-increasing confidence order: every reported
\* entry is a misclassification, no unreported misclassification has a
\* higher confidence than a reported one, total_errors is the number of
\* misclassifications and total_samples the number of predictions.  When no
\* sample is misclassified nothing is reported.
C18_TopKErrors ==
    ev_pc = "analyzed" =>
        /\ ev_report.written <=> Misclassified # {}
        /\ ev_report.written =>
              LET top == ev_report.top_k_errors
                  k == ev_report.top_k
                  n == Cardinality(Misclassified)
              IN /\ Len(top) = IF k < n THEN k ELSE n
                 /\ Cardinality(Reported) = Len(top)
                 /\ \A i \in 1..Len(top) :
                       /\ top[i].info \in Misclassified
                       /\ top[i] = ev_predictions[top[i].info]
                 /\ \A i \in 1..(Len(top) - 1) :
                       top[i].confidence >= top[i + 1].confidence
                 /\ \A m \in Misclassified \ Reported :
                       \A i \in 1..Len(top) :
                           ev_predictions[m].confidence <= top[i].confidence
                 /\ ev_report.total_errors = n
                 /\ ev_report.total_samples = Len(ev_predictions)

C18_Witness ==
    /\ ev_pc = "analyzed"
    /\ ev_report.written
    /\ ev_report.top_k = 2
    /\ Cardinality(Misclassified) = 3
    /\ Len(ev_report.top_k_errors) = 2
    /\ ev_report.top_k_errors[1].confidence
           > ev_report.top_k_errors[2].confidence
    /\ ev_predictions[1].confidence < ev_predictions[2].confidence

(***************************************************************************)
(* C21: POST /api/tags/store is all-or-nothing.                            *)
(***************************************************************************)
\* the request the handler has just answered stored its k tags under the
\* ids of the response
StoredAll ==
    LET k == Len(api_request'.tags)
    IN /\ api_response'.status = 201
       /\ Len(api_response'.tag_ids) = k
       /\ \A i, j \in 1..k :
             i # j => api_response'.tag_ids[i] # api_response'.tag_ids[j]
       /\ Len(db_tags') = Len(db_tags) + k
       /\ SubSeq(db_tags', 1, Len(db_tags)) = db_tags
       /\ \A i \in 1..k :
             LET row == db_tags'[Len(db_tags) + i]
             IN /\ row.id = api_response'.tag_ids[i]
                /\ row.tag_type = api_request'.tags[i].type
                /\ row.source = api_request'.tags[i].source
                /\ \A j \in 1..Len(db_tags) : db_tags[j].id # row.id

StoredNone == api_response'.status = 500 /\ db_tags' = db_tags

\* C21: for a valid request with k >= 1 tags, POST /api/tags/store either
\* stores exactly k new tags and returns 201 with tags_stored = k and k
\* distinct tag_ids that identify them, or rolls back so that none of the
\* request's tags is stored and returns 500; the tags stored by earlier
\* requests are unchanged in both cases.
C21_Original ==
    [][(/\ api_request'.kind = "store"
        /\ api_request = NoRequest
        /\ ValidRequest(api_request'))
       => (StoredAll \/ StoredNone)]_vars

(***************************************************************************)
(* C29: what GET /api/tags/location/{location_name} returns.               *)
(***************************************************************************)
\* the ids of the tags a retrieval has returned under a source
Returned(src) ==
    {api_response.body.tags[src][i].id :
        i \in 1..Len(api_response.body.tags[src])}

\* the stored tags within radius_km / 111 degrees of the centre of the request
WithinRadius ==
    {db_tags[i].id : i \in {j \in 1..Len(db_tags) :
        /\ KmPerDegree * Abs(db_tags[j].lat - api_request.lat)
              <= api_request.radius_km
        /\ KmPerDegree * Abs(db_tags[j].lon - api_request.lon)
              <= api_request.radius_km}}

\* the stored tags of the location the request names
AtLocation ==
    {db_tags[i].id : i \in {j \in 1..Len(db_tags) :
        db_tags[j].location_name = api_request.location_name}}

\* C29: whenever radius_km, lat and lon are all supplied, the result of GET
\* /api/tags/location/{location_name} is exactly the stored tags whose lat
\* and lon each lie within radius_km / 111 degrees of the supplied centre,
\* whatever the location_name; whenever one of them is not supplied, it is
\* exactly the stored tags whose location_name equals the path parameter; in
\* both cases each tag appears only under the key of its own source and
\* total_tags is the number of tags returned.
C29_Original ==
    (api_request.kind = "get" /\ api_response.status = 200) =>
        /\ Returned("user") \cup Returned("osm") \cup Returned("model") =
              IF /\ api_request.radius_km # NoneVal
                 /\ api_request.lat # NoneVal
                 /\ api_request.lon # NoneVal
              THEN WithinRadius
              ELSE AtLocation
        /\ \A src \in TagSources :
              \A i \in 1..Len(api_response.body.tags[src]) :
                  api_response.body.tags[src][i].source = src
        /\ api_response.body.total_tags =
              Cardinality(Returned("user")) + Cardinality(Returned("osm"))
              + Cardinality(Returned("model"))

(***************************************************************************)
(* C30: DELETE /api/tags/tag/{tag_id}.                                     *)
(***************************************************************************)
\* the step is the handling of a delete request
DeleteStep == api_request = NoRequest /\ api_request'.kind = "delete"

\* the delete removes the row of the id and keeps every other row as it is,
\* or finds no such row and changes nothing
DeletesExactly ==
    LET tag_id == api_request'.tag_id
    IN IF tag_id \in Ids(db_tags)
       THEN /\ api_response'.status = 204
            /\ tag_id \notin Ids(db_tags')
            /\ Len(db_tags') = Len(db_tags) - 1
            /\ \A i \in 1..Len(db_tags) :
                  db_tags[i].id # tag_id =>
                      \E j \in 1..Len(db_tags') : db_tags'[j] = db_tags[i]
       ELSE /\ api_response'.status = 404
            /\ db_tags' = db_tags

\* the same, or the database has raised: the delete is answered 500 and
\* every row is kept
DeletesOrRollsBack ==
    IF api_response'.status = 500 THEN db_tags' = db_tags ELSE DeletesExactly

\* a row comes into the table by a store only: a deleted row stays away
\* until a store hands its id out again
StaysDeleted ==
    (\E id \in Ids(db_tags') : id \notin Ids(db_tags))
        => (api_request'.kind = "store" /\ api_response'.status \in {201, 500})

\* a retrieval, a location list and the statistics that are answered show
\* stored rows only (one answered 500 shows nothing)
ShowsStoredOnly ==
    /\ (api_request.kind = "get" /\ api_response.status = 200) =>
          \A src \in TagSources : \A i \in 1..Len(api_response.body.tags[src]) :
              \E j \in 1..Len(db_tags) :
                  db_tags[j] = api_response.body.tags[src][i]
    /\ (api_request.kind = "locations" /\ api_response.status = 200) =>
          \A loc \in api_response.body :
              /\ loc.tag_count >= 1
              /\ loc.tag_count =
                    Cardinality({j \in 1..Len(db_tags) :
                        /\ db_tags[j].location_name = loc.location_name
                        /\ db_tags[j].lat = loc.lat
                        /\ db_tags[j].lon = loc.lon})
    /\ (api_request.kind = "statistics" /\ api_response.status = 200) =>
          /\ api_response.body.total_tags = Len(db_tags)
          /\ \A src \in DOMAIN api_response.body.by_source :
                api_response.body.by_source[src] =
                    Cardinality({j \in 1..Len(db_tags) :
                                    db_tags[j].source = src})
          /\ \A type \in DOMAIN api_response.body.by_type :
                api_response.body.by_type[type] =
                    Cardinality({j \in 1..Len(db_tags) :
                                    db_tags[j].tag_type = type})

\* a delete of the id has just been answered with the status
DeleteAnswered(id, status) ==
    /\ api_request.kind = "delete"
    /\ api_request.tag_id = id
    /\ api_response.status = status

\* a delete of the id is being answered
DeleteOf(id) == api_request.kind = "delete" /\ api_request.tag_id = id

\* once a delete of an id has been answered 204, every later delete of the
\* id is answered 404
SecondDeleteNotFound ==
    \A id \in 1..MaxIds :
        [](DeleteAnswered(id, 204) =>
              [](~DeleteOf(id) => [](DeleteOf(id) => DeleteAnswered(id, 404))))

\* C30 as stated: DELETE /api/tags/tag/{tag_id} returns 204 and removes
\* exactly the tag with that id, leaving every other stored tag unchanged,
\* when the tag exists, and returns 404 leaving the store unchanged when it
\* does not; after a successful delete the tag is in no later retrieval,
\* location list or statistics count, and a second delete of the id returns
\* 404.
C30_Original ==
    /\ [][DeleteStep => DeletesExactly]_vars
    /\ []ShowsStoredOnly
    /\ SecondDeleteNotFound

\* C30 amended: when the database raises no error, DELETE
\* /api/tags/tag/{tag_id} returns 204 and removes exactly the tag with that
\* id, leaving every other stored tag unchanged, when the tag exists, and
\* returns 404 leaving the store unchanged when it does not; when the query
\* or the commit raises it returns 500 and leaves the store unchanged.  After
\* a successful delete the tag is in no later retrieval, location list or
\* statistics count, and a later delete of the id returns 404 (or 500) until
\* a store has handed the id out again, which SQLite does for the largest
\* id.
C30_DeleteExact ==
    /\ [][(DeleteStep => DeletesOrRollsBack) /\ StaysDeleted]_vars
    /\ []ShowsStoredOnly

\* tag 1 has been deleted, tag 2 is still stored, and a second delete of
\* tag 1 has been answered 404
C30_Witness ==
    /\ api_request.kind = "delete"
    /\ api_request.tag_id = 1
    /\ api_response.status = 404
    /\ Ids(db_tags) = {2}

(***************************************************************************)
(* C23: the auto-save of POST /detect.                                     *)
(***************************************************************************)
\* the step is a /detect that has run the model and answers 200
RealDetectStep ==
    /\ ml_request = NoMlRequest
    /\ ml_request'.kind = "detect"
    /\ ml_response'.status = 200
    /\ ml_response'.model_runs # {}

\* the step adds n tags of source "model" to the table and nothing else
StoresModelTags(n) ==
    /\ Len(db_tags') = Len(db_tags) + n
    /\ SubSeq(db_tags', 1, Len(db_tags)) = db_tags
    /\ \A i \in Len(db_tags) + 1..Len(db_tags') : db_tags'[i].source = "model"

\* C23: when real inference yields n >= 1 detections on an image whose EXIF
\* carries GPS coordinates, n tags of source "model" are stored, one per
\* detection; when the image has no GPS coordinates no tag is stored; in
\* both cases, and when the saving fails, the detections are returned to the
\* caller unchanged.
C23_Original ==
    [][RealDetectStep =>
        /\ ml_response'.body.detections = Detections(ml_request'.boxes)
        /\ IF ml_request'.gps
           THEN StoresModelTags(ml_request'.boxes)
           ELSE db_tags' = db_tags]_vars

(***************************************************************************)
(* C24: the mode of POST /detect and what GET /health reports.             *)
(***************************************************************************)
\* a /detect whose upload passed the checks of the handler has been answered
DetectAnswered == ml_request.kind = "detect" /\ ml_response.status # 422

\* the answer is the mock response
MockAnswer ==
    /\ ml_response.status = 200
    /\ ml_response.body.mode = "mock"
    /\ ml_response.body.detections = MockDetections
    /\ ml_response.model_runs = {}

\* C24: POST /detect serves real inference if and only if GET /health reports
\* the stack "full", and the mock response marked mode "mock" otherwise; if
\* the ML stack failed at startup, it stays failed, POST /model/switch is
\* refused and every /detect is answered with the mock response.
C24_ModeFollowsHealth ==
    /\ [](DetectAnswered =>
            IF Stack(has_full_stack, yolo_model) = "full"
            THEN ml_response.model_runs # {} /\ ~MockAnswer
            ELSE MockAnswer)
    /\ [](~has_full_stack =>
            /\ yolo_model = NoModel
            /\ ml_request.kind = "switch" => ml_response.status \in {400, 501}
            /\ DetectAnswered => MockAnswer)
    /\ [][has_full_stack' = has_full_stack]_vars

\* the stack failed at startup and a /detect with an accepted upload has
\* been answered with the mock response
C24_Witness ==
    /\ ~has_full_stack
    /\ DetectAnswered
    /\ MockAnswer

(***************************************************************************)
(* C28: the counters of POST /detect/batch.                                *)
(***************************************************************************)
BatchAnswered == ml_request.kind = "batch" /\ ml_response.status = 200

\* the images the request takes from the directory
Taken ==
    1..(IF ml_request.limit < Len(ml_request.images) THEN ml_request.limit
        ELSE Len(ml_request.images))

\* C28: in a successful /detect/batch, images_processed + images_skipped +
\* errors equals min(limit, total_images_found); the images without GPS data
\* are the skipped ones and none of them is run through the model; and
\* total_tags_saved is the sum of tags_saved over the results.
C28_BatchCounters ==
    BatchAnswered =>
        /\ ml_response.body.total_images_found = Len(ml_request.images)
        /\ ml_response.body.images_processed + ml_response.body.images_skipped
           + ml_response.body.errors = Cardinality(Taken)
        /\ ml_response.body.images_skipped =
              Cardinality({i \in Taken : ml_request.images[i] = "no_gps"})
        /\ \A i \in Taken : ml_request.images[i] = "no_gps" =>
              /\ i \notin ml_response.model_runs
              /\ \A j \in 1..Len(ml_response.body.results) :
                    ml_response.body.results[j].filename # i
        /\ ml_response.body.total_tags_saved =
              SumSeq([j \in 1..Len(ml_response.body.results) |->
                        ml_response.body.results[j].tags_saved])

\* a batch of limit 2 over three images: one without GPS data was skipped,
\* one with detections was processed, the third was not taken
C28_Witness ==
    /\ BatchAnswered
    /\ ml_request.limit = 2
    /\ ml_response.body.total_images_found = 3
    /\ ml_response.body.images_skipped = 1
    /\ ml_response.body.images_processed = 1
    /\ Len(ml_response.body.results) = 1

(***************************************************************************)
(* C22: DELETE /voice/cleanup.                                             *)
(***************************************************************************)
\* the step is the handling of a GET /voice
VoiceRequestStep == clock' = clock /\ cleanup_response' = NoCleanup

\* the speech file GET /voice has written and removed in the step
Unlinked ==
    IF VoiceRequestStep /\ voice_response'.unlinked # NoneVal
    THEN {voice_response'.unlinked} ELSE {}

\* the speech files the step takes from the directory
Removed == audio_files \ audio_files'

\* the speech files the step deletes
Deleted == Removed \cup Unlinked

\* the age of a speech file at the step: a file the step has written itself
\* is new
FileAge(f) == IF f \in audio_files THEN clock - file_mtime[f] ELSE 0

\* C22 as stated: DELETE /voice/cleanup deletes only speech_*.mp3 files of
\* the audio directory whose age exceeds one hour: a generated file that is
\* not older than one hour is never deleted, no operation other than cleanup
\* deletes a generated file, and the reported "cleaned" count is the number
\* of files removed.
C22_Original ==
    [][/\ Deleted # {} => cleanup_response'.status = 200
       /\ \A f \in Deleted : FileAge(f) > MaxAge
       /\ other_files' = other_files
       /\ cleanup_response'.status = 200 =>
             cleanup_response'.cleaned = Cardinality(Deleted)]_vars

\* C22 amended: DELETE /voice/cleanup deletes only speech_*.mp3 files of the
\* audio directory whose age exceeds one hour: a file GET /voice has left in
\* the directory that is not older than one hour is never deleted, no
\* operation other than cleanup deletes such a file, and the reported
\* "cleaned" count is the number of files removed.  The one file GET /voice
\* deletes is the zero-byte file gTTS has written for the same request, which
\* is answered 500.
C22_CleanupOnlyOld ==
    [][/\ Removed # {} => cleanup_response'.status = 200
       /\ \A f \in Removed : FileAge(f) > MaxAge
       /\ other_files' = other_files
       /\ cleanup_response'.status = 200 =>
             cleanup_response'.cleaned = Cardinality(Removed)
       /\ \A f \in Unlinked :
             /\ tts_engine = "gtts"
             /\ voice_response'.status = 500
             /\ f \notin audio_files
             /\ f \notin audio_files']_vars

\* a cleanup has removed one file and has left a generated file that is not
\* older than one hour and a file that is no speech file
C22_Witness ==
    /\ cleanup_response.status = 200
    /\ cleanup_response.cleaned = 1
    /\ \E f \in audio_files : clock - file_mtime[f] <= MaxAge
    /\ other_files # {}

(***************************************************************************)
(* C27: the retry loop of fetch_osm_features.                              *)
(***************************************************************************)
\* the requests issued so far
Requests == SelectSeq(osm_trace, LAMBDA e : e # "sleep")

\* at most retry_count requests; after a successful one nothing follows and
\* its elements are returned; after failures only, the empty list is returned
RequestsBounded ==
    /\ Len(Requests) <= retry_count
    /\ \A i \in 1..Len(osm_trace) : osm_trace[i] = "ok" =>
          i = Len(osm_trace) /\ osm_pc = "returned"
    /\ (osm_pc = "returned" /\ "ok" \notin Range(osm_trace)) =>
          osm_result = <<>>

\* no sleep follows the last of retry_count failed requests
NoSleepAtEnd ==
    (Len(Requests) = retry_count /\ osm_trace # <<>>) =>
        osm_trace[Len(osm_trace)] # "sleep"

\* C27: fetch_osm_features terminates after at most retry_count requests to
\* the Overpass API; it returns the elements of the first successful
\* response and issues no request after it; if every attempt fails (timeout,
\* request error or HTTP 429, each of which consumes one attempt) it returns
\* the empty list; and it does not sleep after the final failed attempt.
C27_Original ==
    /\ <>(osm_pc = "returned")
    /\ []RequestsBounded
    /\ []NoSleepAtEnd

(***************************************************************************)
(* C26: the gradients left when AdvancedTrainer.train_epoch returns.       *)
(***************************************************************************)
\* C26: for every number of batches per epoch and every
\* grad_accumulation_steps N >= 1, no accumulated gradient is left unapplied
\* when AdvancedTrainer.train_epoch returns: every backward pass has been
\* followed, within the epoch, by an optimizer step and a gradient reset, so
\* that none is carried into the validation pass or into the next epoch.
C26_Original ==
    (IsAdvanced /\ pc = "validate") => grad_pending = 0

(***************************************************************************)
(* C25: an AdvancedTrainer constructed with resume_path                    *)
(* (scripts/train_pipeline.py).                                            *)
(***************************************************************************)
\* the epochs without improvement of an uninterrupted run after the
\* accuracies h
WithoutImprovement(h) == Len(h) - LastImprovement(h)

\* the accuracy sequences after which an uninterrupted run is still going
\* and has epochs left: the runs a checkpoint is resumed from
Resumable(cfg) ==
    {h \in UNION {[1..n -> 0..MaxAcc] : n \in 1..cfg.num_epochs - 1} :
        \A e \in 1..Len(h) :
            ~ShouldStop(WithoutImprovement(SubSeq(h, 1, e)),
                        cfg.early_stopping_patience)}

\* checkpoint_epoch_E.pth of an uninterrupted run of one batch per epoch
\* with the accuracies h, E = Len(h)
CheckpointAfter(cfg, h) ==
    [epoch |-> Len(h),
     model_state_dict |-> Len(h),
     optimizer_state_dict |-> Len(h),
     scheduler_state_dict |-> IF cfg.scheduler THEN Len(h) ELSE NoneVal,
     best_val_acc |-> RunningBest(h),
     config |-> cfg]

\* AdvancedTrainer.__init__ with resume_path: the training state of lines
\* 109-114, then load_checkpoint, which restores the model, the optimizer,
\* the scheduler, current_epoch and best_val_acc; train() is about to run
ResumeInit ==
    /\ config \in {cfg \in AdvancedTrainerConfigs :
                      /\ cfg.train_batches = 1
                      /\ cfg.val_batches >= 1
                      /\ cfg.grad_accumulation_steps = 1
                      /\ ~cfg.grad_clip
                      /\ ~cfg.use_amp}
    /\ resume_accs \in Resumable(config)
    /\ LET ckpt == CheckpointAfter(config, resume_accs)
       IN /\ files = TorchSave(<<>>, CheckpointFile(ckpt.epoch), ckpt)
          /\ model_state = ckpt.model_state_dict
          /\ optimizer_state = ckpt.optimizer_state_dict
          /\ scheduler_state = IF config.scheduler
                               THEN ckpt.scheduler_state_dict ELSE 0
          /\ current_epoch = ckpt.epoch
          /\ epoch = ckpt.epoch
          /\ best_val_acc = ckpt.best_val_acc
    /\ epochs_without_improvement = 0
    /\ val_history = <<>>
    /\ pc = "for"
    /\ batch_idx = 0
    /\ val_acc = 0
    /\ is_best = FALSE
    /\ grad_pending = 0
    /\ ops = <<>>
    /\ log_saved = FALSE
    /\ raised = 0

ResumeSpecInit == ResumeInit /\ Idle({"trainer", "resumed"})

\* AdvancedTrainer.train
ResumeNext ==
    /\ \/ ForEpoch
       \/ TrainBatch
       \/ TrainEpochReturn
       \/ ValidateBatch
       \/ ValidateReturn
       \/ SchedulerStep
       \/ CheckBest
       \/ SaveCheckpoint
       \/ StoreHistory
       \/ EarlyStopping
       \/ SaveTrainingLog
    /\ Frame({"trainer"})

ResumeSpec == ResumeSpecInit /\ [][ResumeNext]_vars

\* the accuracies of the epochs before the checkpoint and of those since
FullHistory == resume_accs \o val_history

\* C25: resuming is equivalent to not stopping: an AdvancedTrainer
\* constructed with resume_path set to the checkpoint of epoch E continues
\* with epoch E+1 and then takes the same best-checkpoint and early-stopping
\* decisions, at the same epochs, as an uninterrupted run over the same
\* validation accuracies.
C25_Original ==
    /\ pc = "train_epoch" => epoch = Len(FullHistory) + 1
    /\ pc = "early_stopping" =>
          /\ epoch = Len(FullHistory)
          /\ is_best = Improved(FullHistory, epoch)
          /\ ShouldStop(epochs_without_improvement,
                        config.early_stopping_patience)
             = ShouldStop(WithoutImprovement(FullHistory),
                          config.early_stopping_patience)

====
